---- MODULE Spec2Model ----
(***************************************************************************)
(* Model of brontes' optimistic CEX pricer                                 *)
(* (crates/brontes-types/src/db/cex/trades/optimistic.rs):                 *)
(* SortedTrades::get_optimistic_price, get_optimistic_via_intermediary,    *)
(* get_optimistic_direct and get_trades.                                   *)
(*                                                                         *)
(* Times are microseconds.  malachite::Rational values are records         *)
(* [n, d] in lowest terms with d > 0.                                      *)
(***************************************************************************)
EXTENDS Integers, Sequences, FiniteSets, TLC

(***************************************************************************)
(* malachite::Rational                                                     *)
(***************************************************************************)
RECURSIVE Gcd(_, _)
Gcd(a, b) ==
    IF b = 0 THEN a ELSE Gcd(b, a % b)

Abs(x) ==
    IF x < 0 THEN -x ELSE x

Rat(n, d) ==
    LET g == Gcd(Abs(n), Abs(d))
        s == IF d < 0 THEN -1 ELSE 1
    IN  [n |-> (s * n) \div g, d |-> (s * d) \div g]

RZero ==
    [n |-> 0, d |-> 1]

ROne ==
    [n |-> 1, d |-> 1]

RInt(i) ==
    [n |-> i, d |-> 1]

RAdd(a, b) ==
    LET g == Gcd(a.d, b.d)
    IN  Rat(a.n * (b.d \div g) + b.n * (a.d \div g), (a.d \div g) * b.d)

RSub(a, b) ==
    LET g == Gcd(a.d, b.d)
    IN  Rat(a.n * (b.d \div g) - b.n * (a.d \div g), (a.d \div g) * b.d)

\* cross-cancel before multiplying, as the result is in lowest terms anyway
RMul(a, b) ==
    LET g1 == Gcd(Abs(a.n), b.d)
        g2 == Gcd(Abs(b.n), a.d)
    IN  Rat((a.n \div g1) * (b.n \div g2), (a.d \div g2) * (b.d \div g1))

RRecip(a) ==
    Rat(a.d, a.n)

RDiv(a, b) ==
    RMul(a, RRecip(b))

RLt(a, b) ==
    LET g == Gcd(a.d, b.d)
    IN  a.n * (b.d \div g) < b.n * (a.d \div g)

RLe(a, b) ==
    LET g == Gcd(a.d, b.d)
    IN  a.n * (b.d \div g) <= b.n * (a.d \div g)

(***************************************************************************)
(* Option<T>                                                               *)
(***************************************************************************)
None ==
    [some |-> FALSE]

Some(x) ==
    [some |-> TRUE, val |-> x]

(***************************************************************************)
(* Constants of optimistic.rs                                              *)
(***************************************************************************)
BASE_EXECUTION_QUALITY ==
    70

PRE_SCALING_DIFF ==
    200000

TIME_STEP ==
    100000

USDC_ADDRESS ==
    "USDC"

USDT_ADDRESS ==
    "USDT"

(***************************************************************************)
(* Bounds of the model                                                     *)
(***************************************************************************)
\* the block timestamp is BlockTime; trade timestamps are laid around it
BlockTime ==
    1000000

\* requested volumes are 1 .. MaxVolume
MaxVolume ==
    3

(***************************************************************************)
(* Pair, CexExchange, CexTrades                                            *)
(***************************************************************************)
Tokens ==
    {"USDC", "USDT", "WETH", "DAI", "TKN"}

Pair(a, b) ==
    <<a, b>>

flip(p) ==
    <<p[2], p[1]>>

Exchanges ==
    {"Binance", "Coinbase"}

\* CexExchange::fees(): (maker fee, taker fee), each a Rational in [0, 1)
fees(exchange) ==
    IF exchange = "Binance"
    THEN <<Rat(1, 100), Rat(2, 100)>>
    ELSE <<Rat(2, 100), Rat(4, 100)>>

CexTrade(ex, off, px, amt) ==
    [exchange |-> ex, timestamp |-> BlockTime + off, price |-> RInt(px),
     amount |-> RInt(amt)]

\* CexTrades::adjust_for_direction: a Buy (flipped pair) inverts the price
adjust_for_direction(trade, direction) ==
    IF direction = "Buy"
    THEN [trade EXCEPT !.price = RRecip(trade.price)]
    ELSE trade

(***************************************************************************)
(* calculate_weight: e^(PRE_DECAY * dt) before the block and               *)
(* e^(POST_DECAY * dt) after it, PRE_DECAY = -3e-7 and POST_DECAY =        *)
(* -1.2e-7 per microsecond.  The f64 exponential is evaluated by its       *)
(* expansion 1 - x + x^2/2 (x < 0.3 for the model's dt < 1 s) in units of  *)
(* 1e-4 and rounded to two decimals, the precision of the Rational the     *)
(* model carries.                                                          *)
(***************************************************************************)
calculate_weight(block_time, trade_time) ==
    LET pre == trade_time < block_time
        ms  == (IF pre THEN block_time - trade_time
                       ELSE trade_time - block_time) \div 1000
        e4  == IF pre
               THEN 10000 - 3 * ms + (9 * ms * ms) \div 20000
               ELSE 10000 - (12 * ms) \div 10 + (144 * ms * ms) \div 2000000
    IN  Rat((e4 + 50) \div 100, 100)

(***************************************************************************)
(* SortedTrades: pair -> trades sorted by timestamp.  The model draws the  *)
(* map's keys from KeyPairs; each key carries the stream TradeStream(key). *)
(***************************************************************************)
KeyPairs ==
    {<<"TKN", "USDC">>, <<"USDC", "USDT">>, <<"TKN", "WETH">>,
     <<"WETH", "USDT">>, <<"TKN", "USDT">>, <<"USDT", "TKN">>}

TradeStream(key) ==
    CASE key = <<"TKN", "USDC">> ->
            << CexTrade("Binance", -100000, 2, 1),
               CexTrade("Coinbase", 100000, 3, 2) >>
      [] key = <<"USDC", "USDT">> ->
            << CexTrade("Binance", 0, 1, 1) >>
      [] key = <<"TKN", "WETH">> ->
            << CexTrade("Binance", 200000, 1, 2) >>
      [] key = <<"WETH", "USDT">> ->
            << CexTrade("Coinbase", -200000, 2, 1),
               CexTrade("Binance", 300000, 3, 2) >>
      [] key = <<"TKN", "USDT">> ->
            << CexTrade("Binance", -300000, 2, 1),
               CexTrade("Binance", 400000, 3, 1) >>
      [] key = <<"USDT", "TKN">> ->
            << CexTrade("Coinbase", 50000, 1, 1),
               CexTrade("Coinbase", 100000, 2, 1) >>

SortedTradesMaps ==
    { [k \in D |-> TradeStream(k)] : D \in SUBSET KeyPairs }

\* CexDexTradeConfig: the optimistic window bounds
Configs ==
    { [optimistic_before_us |-> 300000, optimistic_after_us |-> 500000],
      [optimistic_before_us |-> 100000, optimistic_after_us |-> 300000] }

\* Option<FastHashMap<CexExchange, FastHashMap<Pair, usize>>>
QualityTables ==
    { None,
      Some([e \in {"Coinbase"} |->
               [p \in {<<"USDT", "TKN">>} |-> 50]]) }

\* half-width of the window construct_time_baskets starts from
InitWindows ==
    {0, 50000}

QueryPairs ==
    {<<"TKN", "TKN">>, <<"TKN", "USDT">>, <<"USDT", "TKN">>,
     <<"USDC", "TKN">>}

(***************************************************************************)
(* SortedTrades::get_trades                                                *)
(***************************************************************************)
AdjustAll(trades, direction) ==
    [i \in 1..Len(trades) |-> adjust_for_direction(trades[i], direction)]

\* get_trades looking at the flipped pair first
get_trades_FlipFirst(map, p) ==
    IF flip(p) \in DOMAIN map
    THEN Some([trades    |-> AdjustAll(map[flip(p)], "Buy"),
               direction |-> "Buy"])
    ELSE IF p \in DOMAIN map
         THEN Some([trades    |-> AdjustAll(map[p], "Sell"),
                    direction |-> "Sell"])
         ELSE None

get_trades(map, p) ==
    IF p \in DOMAIN map
    THEN Some([trades    |-> AdjustAll(map[p], "Sell"),
               direction |-> "Sell"])
    ELSE IF flip(p) \in DOMAIN map
         THEN Some([trades    |-> AdjustAll(map[flip(p)], "Buy"),
                    direction |-> "Buy"])
         ELSE None

\* get_optimistic_direct: the per-exchange execution quality for the pair
QualityPct(q, p) ==
    IF q.some
    THEN Some([k \in DOMAIN q.val |->
                  IF p \in DOMAIN q.val[k] THEN q.val[k][p]
                  ELSE BASE_EXECUTION_QUALITY])
    ELSE None

(***************************************************************************)
(* TimeBasketQueue and TimeBasket (trades/utils.rs)                        *)
(***************************************************************************)
RECURSIVE SelectIdx(_, _, _)
SelectIdx(s, K, i) ==
    IF i > Len(s) THEN <<>>
    ELSE (IF i \in K THEN <<s[i]>> ELSE <<>>) \o SelectIdx(s, K, i + 1)

RECURSIVE SumAmount(_)
SumAmount(s) ==
    IF s = <<>> THEN RZero ELSE RAdd(Head(s).amount, SumAmount(Tail(s)))

\* the share of an exchange's trades the arbitrageur is assumed to capture
ExchangeQuality(qpct, exchange) ==
    IF qpct.some /\ exchange \in DOMAIN qpct.val
    THEN qpct.val[exchange]
    ELSE BASE_EXECUTION_QUALITY

\* per exchange, the top quality per cent of a window's trades by proximity
\* to the block time
QualityFilter(strip, T, qpct) ==
    LET Prox(i) == Abs(strip[i].timestamp - T)
        Same(i) == {j \in 1..Len(strip) : strip[j].exchange = strip[i].exchange}
        Rank(i) == Cardinality({j \in Same(i) :
                        Prox(j) < Prox(i) \/ (Prox(j) = Prox(i) /\ j <= i)})
        Quota(i) == (Cardinality(Same(i))
                        * ExchangeQuality(qpct, strip[i].exchange) + 99) \div 100
    IN  SelectIdx(strip, {i \in 1..Len(strip) : Rank(i) <= Quota(i)}, 1)

\* price-favourable order: highest first for Sell, lowest first for Buy
Better(a, b, direction) ==
    IF direction = "Sell" THEN RLt(b.price, a.price) ELSE RLt(a.price, b.price)

RECURSIVE InsertTrade(_, _, _)
InsertTrade(t, s, direction) ==
    IF s = <<>> THEN <<t>>
    ELSE IF Better(t, Head(s), direction) THEN <<t>> \o s
         ELSE <<Head(s)>> \o InsertTrade(t, Tail(s), direction)

RECURSIVE SortTrades(_, _)
SortTrades(s, direction) ==
    IF s = <<>> THEN <<>>
    ELSE InsertTrade(Head(s), SortTrades(Tail(s), direction), direction)

BasketOf(kept) ==
    [trades |-> kept, volume |-> SumAmount(kept)]

TimeBasket(strip, T, qpct, direction) ==
    BasketOf(SortTrades(QualityFilter(strip, T, qpct), direction))

\* TimeBasketQueue::new
NewQueue(trade_data, T, qpct) ==
    [called          |-> TRUE,
     trades          |-> trade_data.trades,
     direction       |-> trade_data.direction,
     block_timestamp |-> T,
     quality_pct     |-> qpct,
     min_timestamp   |-> T,
     max_timestamp   |-> T,
     volume          |-> RZero,
     baskets         |-> <<>>]

PushBasket(q, b) ==
    [q EXCEPT !.baskets = Append(@, b), !.volume = RAdd(@, b.volume)]

\* a window that holds no trade adds no basket
AddBasket(q, strip) ==
    IF strip = <<>> THEN q
    ELSE PushBasket(q, TimeBasket(strip, q.block_timestamp, q.quality_pct,
                                  q.direction))

\* TimeBasketQueue::construct_time_baskets: the first, narrow window
\* the trades of a stream with lo <= timestamp <= hi
Window(trades, lo, hi) ==
    SelectSeq(trades, LAMBDA t: lo <= t.timestamp /\ t.timestamp <= hi)

construct_time_baskets(q, w0) ==
    AddBasket([q EXCEPT !.min_timestamp = q.block_timestamp - w0,
                        !.max_timestamp = q.block_timestamp + w0],
              Window(q.trades, q.block_timestamp - w0, q.block_timestamp + w0))

get_min_time_delta(q, T) ==
    T - q.min_timestamp

get_max_time_delta(q, T) ==
    q.max_timestamp - T

\* TimeBasketQueue::expand_time_bounds: widen the window before the block by
\* min_expand and after it by max_expand, absorbing the new trades
SetBounds(q, lo, hi) ==
    [q EXCEPT !.min_timestamp = lo, !.max_timestamp = hi]

expand_time_bounds(q, min_expand, max_expand) ==
    SetBounds(
        AddBasket(
            AddBasket(q, Window(q.trades, q.min_timestamp - min_expand,
                                q.min_timestamp - 1)),
            Window(q.trades, q.max_timestamp + 1,
                   q.max_timestamp + max_expand)),
        q.min_timestamp - min_expand, q.max_timestamp + max_expand)

\* TimeBasket::get_trades_used: draw trades in order until to_fill is met
Taken(t, rest) ==
    [trades |-> <<t>> \o rest.trades, unfilled |-> rest.unfilled]

RECURSIVE TakeTrades(_, _)
TakeTrades(trades, remaining) ==
    IF trades = <<>> \/ ~RLt(RZero, remaining)
    THEN [trades |-> <<>>, unfilled |-> remaining]
    ELSE Taken(Head(trades),
               TakeTrades(Tail(trades),
                          IF RLe(remaining, Head(trades).amount) THEN RZero
                          ELSE RSub(remaining, Head(trades).amount)))

get_trades_used(basket, to_fill) ==
    TakeTrades(basket.trades, to_fill)

(***************************************************************************)
(* SortedTrades::get_optimistic_direct                                     *)
(***************************************************************************)
\* the loop with `>` for `>=` in the break test: one pass too many
LoopContinues_StrictBreak(q, T, vol, cfg) ==
    /\ RLt(q.volume, vol)
    /\ ~(\/ get_min_time_delta(q, T) > cfg.optimistic_before_us
         \/ get_max_time_delta(q, T) > cfg.optimistic_after_us)

\* the `while` condition and the `break` test of the expansion loop
LoopContinues(q, T, vol, cfg) ==
    /\ RLt(q.volume, vol)
    /\ ~(\/ get_min_time_delta(q, T) >= cfg.optimistic_before_us
         \/ get_max_time_delta(q, T) >= cfg.optimistic_after_us)

\* the pre-block expansion with `>` for `>=`
MinExpand_Strict(q, T) ==
    IF get_max_time_delta(q, T) > PRE_SCALING_DIFF THEN TIME_STEP ELSE 0

\* the pre-block expansion chosen by one pass of the loop
MinExpand(q, T) ==
    IF get_max_time_delta(q, T) >= PRE_SCALING_DIFF THEN TIME_STEP ELSE 0

\* one pass of the expansion loop
ExpandStep(q, T) ==
    expand_time_bounds(q, MinExpand(q, T), TIME_STEP)

RECURSIVE RunLoop(_, _, _, _)
RunLoop(q, T, vol, cfg) ==
    IF LoopContinues(q, T, vol, cfg)
    THEN RunLoop(ExpandStep(q, T), T, vol, cfg)
    ELSE q

\* the fill loop: each basket's share of the volume plus the carry
\* to_fill = basket.volume / baskets_queue.volume * volume + unfilled
ToFill(basket, total, vol, unfilled) ==
    RAdd(RMul(RDiv(basket.volume, total), vol), unfilled)

RECURSIVE FillBaskets(_, _, _, _)
RECURSIVE FillRest(_, _, _, _)
FillBaskets(baskets, total, vol, unfilled) ==
    IF baskets = <<>> THEN <<>>
    ELSE FillRest(get_trades_used(Head(baskets),
                      ToFill(Head(baskets), total, vol, unfilled)),
                  Tail(baskets), total, vol)

FillRest(used, baskets, total, vol) ==
    used.trades \o FillBaskets(baskets, total, vol, used.unfilled)

\* the accumulation with the weight left out of the divisor
AddTrade_UnweightedVolume(acc, trade, weight, m_fee, t_fee, p) ==
    [vxp_maker |-> RAdd(acc.vxp_maker,
         RMul(RMul(RMul(trade.price, RSub(ROne, m_fee)), trade.amount),
              weight)),
     vxp_taker |-> RAdd(acc.vxp_taker,
         RMul(RMul(RMul(trade.price, RSub(ROne, t_fee)), trade.amount),
              weight)),
     trade_volume_weight |-> RAdd(acc.trade_volume_weight, trade.amount),
     trade_volume |-> RAdd(acc.trade_volume, trade.amount),
     optimistic_trades |-> Append(acc.optimistic_trades,
         [volume    |-> trade.amount,
          pair      |-> p,
          price     |-> trade.price,
          exchange  |-> trade.exchange,
          timestamp |-> trade.timestamp])]

\* one pass of the accumulation loop over trades_used
AddTrade(acc, trade, weight, m_fee, t_fee, p) ==
    [vxp_maker |-> RAdd(acc.vxp_maker,
         RMul(RMul(RMul(trade.price, RSub(ROne, m_fee)), trade.amount),
              weight)),
     vxp_taker |-> RAdd(acc.vxp_taker,
         RMul(RMul(RMul(trade.price, RSub(ROne, t_fee)), trade.amount),
              weight)),
     trade_volume_weight |-> RAdd(acc.trade_volume_weight,
         RMul(trade.amount, weight)),
     trade_volume |-> RAdd(acc.trade_volume, trade.amount),
     optimistic_trades |-> Append(acc.optimistic_trades,
         [volume    |-> trade.amount,
          pair      |-> p,
          price     |-> trade.price,
          exchange  |-> trade.exchange,
          timestamp |-> trade.timestamp])]

RECURSIVE Accumulate(_, _, _, _)
Accumulate(trades, T, p, acc) ==
    IF trades = <<>> THEN acc
    ELSE Accumulate(Tail(trades), T, p,
             AddTrade(acc, Head(trades),
                      calculate_weight(T, Head(trades).timestamp),
                      fees(Head(trades).exchange)[1],
                      fees(Head(trades).exchange)[2], p))

\* the volume check with the negation of bypass_vol lost
InsufficientVolume_BypassInverted(trade_volume, vol, bypass) ==
    RLt(trade_volume, vol) /\ bypass

\* the volume check of get_optimistic_direct
InsufficientVolume(trade_volume, vol, bypass) ==
    RLt(trade_volume, vol) /\ ~bypass

\* the quotient, taken as 0 where the divisor is 0
Quotient(a, b) ==
    IF b = RZero THEN RZero ELSE RDiv(a, b)

\* the return of get_optimistic_direct without the test for no volume
DirectOut_NoZeroCheck(acc, p, vol, bypass) ==
    IF InsufficientVolume(acc.trade_volume, vol, bypass) THEN None
    ELSE Some([maker |->
                  [trades_used |-> acc.optimistic_trades,
                   pairs       |-> <<p>>,
                   final_price |-> Quotient(acc.vxp_maker,
                                            acc.trade_volume_weight)],
               taker |->
                  [trades_used |-> acc.optimistic_trades,
                   pairs       |-> <<p>>,
                   final_price |-> Quotient(acc.vxp_taker,
                                            acc.trade_volume_weight)]])

\* the return of get_optimistic_direct
DirectOut(acc, p, vol, bypass) ==
    IF InsufficientVolume(acc.trade_volume, vol, bypass) THEN None
    ELSE IF acc.trade_volume = RZero THEN None
    ELSE Some([maker |->
                  [trades_used |-> acc.optimistic_trades,
                   pairs       |-> <<p>>,
                   final_price |-> RDiv(acc.vxp_maker,
                                        acc.trade_volume_weight)],
               taker |->
                  [trades_used |-> acc.optimistic_trades,
                   pairs       |-> <<p>>,
                   final_price |-> RDiv(acc.vxp_taker,
                                        acc.trade_volume_weight)]])

\* what a get_optimistic_direct call did: its arguments, the window and the
\* sums it ended with, and the Option<MakerTaker> it returned
DirectRecord(acc, q, T, p, vol, bypass) ==
    [called |-> TRUE, pair |-> p, volume |-> vol, bypass_vol |-> bypass,
     has_trades |-> TRUE, queue_volume |-> q.volume,
     min_delta |-> get_min_time_delta(q, T),
     max_delta |-> get_max_time_delta(q, T),
     trade_volume |-> acc.trade_volume,
     trade_volume_weight |-> acc.trade_volume_weight,
     vxp_maker |-> acc.vxp_maker,
     out |-> DirectOut(acc, p, vol, bypass)]

ZeroSums ==
    [vxp_maker |-> RZero, vxp_taker |-> RZero, trade_volume_weight |-> RZero,
     trade_volume |-> RZero, optimistic_trades |-> <<>>]

\* get_optimistic_direct from the fill loop to the return
DirectPrice(q, T, p, vol, bypass) ==
    DirectRecord(
        Accumulate(FillBaskets(q.baskets, q.volume, vol, RZero), T, p,
                   ZeroSums),
        q, T, p, vol, bypass)

\* get_optimistic_direct when get_trades finds no data for the pair
DirectMissing(p, vol, bypass) ==
    [called |-> TRUE, pair |-> p, volume |-> vol, bypass_vol |-> bypass,
     has_trades |-> FALSE, queue_volume |-> RZero,
     min_delta |-> 0, max_delta |-> 0,
     trade_volume |-> RZero, trade_volume_weight |-> RZero,
     vxp_maker |-> RZero,
     out |-> None]

\* the queue get_optimistic_direct starts its loop from
StartQueue(trade_data, T, p, qual, w0) ==
    construct_time_baskets(NewQueue(trade_data, T, QualityPct(qual, p)), w0)

DirectWith(trade_data, cfg, T, p, vol, bypass, qual, w0) ==
    IF ~trade_data.some THEN DirectMissing(p, vol, bypass)
    ELSE DirectPrice(RunLoop(StartQueue(trade_data.val, T, p, qual, w0),
                             T, vol, cfg),
                     T, p, vol, bypass)

get_optimistic_direct(map, cfg, T, p, vol, bypass, qual, w0) ==
    DirectWith(get_trades(map, p), cfg, T, p, vol, bypass, qual, w0)

(***************************************************************************)
(* SortedTrades::get_optimistic_via_intermediary                           *)
(***************************************************************************)
\* Mul without `self.final_price *= rhs.final_price`
Mul_PriceNotMultiplied(self, rhs) ==
    [trades_used |-> self.trades_used \o rhs.trades_used,
     pairs       |-> self.pairs \o rhs.pairs,
     final_price |-> self.final_price]

\* impl Mul for ExchangePrice
Mul(self, rhs) ==
    [trades_used |-> self.trades_used \o rhs.trades_used,
     pairs       |-> self.pairs \o rhs.pairs,
     final_price |-> RMul(self.final_price, rhs.final_price)]

\* SortedTrades::calculate_intermediary_addresses: the whitelist plus every
\* token traded against both sides of the pair
IntermediaryWhitelist ==
    {"WETH", "USDC", "USDT", "DAI"}

ConnectedTo(map, token) ==
    {k[2] : k \in {x \in DOMAIN map : x[1] = token}}
        \cup {k[1] : k \in {x \in DOMAIN map : x[2] = token}}

calculate_intermediary_addresses(map, p) ==
    IntermediaryWhitelist \cup (ConnectedTo(map, p[1]) \cap ConnectedTo(map, p[2]))

\* "bypass volume requirements for stable pairs"
IsStablePair(p) ==
    \/ p[1] = USDC_ADDRESS /\ p[2] = USDT_ADDRESS
    \/ p[1] = USDT_ADDRESS /\ p[2] = USDC_ADDRESS

\* the stable-pair test for USDC -> USDT only
LegBypass_OneDirection(bypass, leg_pair) ==
    bypass \/ (leg_pair[1] = USDC_ADDRESS /\ leg_pair[2] = USDT_ADDRESS)

\* the bypass_vol argument of a leg's get_optimistic_direct call
LegBypass(bypass, leg_pair) ==
    bypass \/ IsStablePair(leg_pair)

\* the volume the second leg is priced at
SecondLegVolume(vol, first_leg) ==
    RMul(vol, first_leg.maker.final_price)

NotCalled ==
    [called |-> FALSE]

\* the closure's value once both legs were called
RouteOut(first_leg, second_leg) ==
    IF ~second_leg.out.some THEN None
    ELSE Some([maker |-> Mul(first_leg.out.val.maker,
                             second_leg.out.val.maker),
               taker |-> Mul(first_leg.out.val.taker,
                             second_leg.out.val.taker)])

RouteRecord(intermediary, first_leg, second_leg) ==
    [called |-> TRUE, intermediary |-> intermediary,
     first_leg |-> first_leg, second_leg |-> second_leg,
     out |-> RouteOut(first_leg, second_leg)]

\* the closure after the first leg: `?` on it, then the second leg
AfterFirstLeg(map, cfg, T, p, vol, bypass, qual, w0, intermediary, first_leg) ==
    IF ~first_leg.out.some
    THEN [called |-> TRUE, intermediary |-> intermediary,
          first_leg |-> first_leg, second_leg |-> NotCalled, out |-> None]
    ELSE RouteRecord(intermediary, first_leg,
             get_optimistic_direct(map, cfg, T, Pair(intermediary, p[2]),
                 SecondLegVolume(vol, first_leg.out.val),
                 LegBypass(bypass, Pair(intermediary, p[2])), qual, w0))

\* the filter_map closure: price one candidate intermediary
TryIntermediary(map, cfg, T, p, vol, bypass, qual, w0, intermediary) ==
    AfterFirstLeg(map, cfg, T, p, vol, bypass, qual, w0, intermediary,
        get_optimistic_direct(map, cfg, T, Pair(p[1], intermediary), vol,
            LegBypass(bypass, Pair(p[1], intermediary)), qual, w0))

\* min_by_key for max_by_key
MaxByKey_Min(best, new) ==
    IF ~best.some THEN new
    ELSE IF ~new.some THEN best
    ELSE IF RLt(best.val.maker.final_price, new.val.maker.final_price)
         THEN best
         ELSE new

\* max_by_key(|a| a.0.final_price) folded over the priced routes: the last
\* route with the greatest key wins
MaxByKey(best, new) ==
    IF ~best.some THEN new
    ELSE IF ~new.some THEN best
    ELSE IF RLt(new.val.maker.final_price, best.val.maker.final_price)
         THEN best
         ELSE new

\* filter_map(..).max_by_key(..) over the candidates in every order the
\* hash set may yield them: the set of values the fold can end with
RECURSIVE MaxOverOrders(_, _, _)
MaxOverOrders(tried, todo, best) ==
    IF todo = {} THEN {best}
    ELSE UNION { MaxOverOrders(tried, todo \ {i}, MaxByKey(best, tried[i].out))
                 : i \in todo }

(***************************************************************************)
(* State: the arguments of one get_optimistic_price call and the call's    *)
(* progress.                                                               *)
(***************************************************************************)
VARIABLES
    sorted_trades,    \* self.0
    config, block_timestamp, pair, volume, quality, bypass_vol,
    init_window,      \* the first window of the basket queue
    pc,               \* "start", "direct_loop", "via_intermediary", "done"
    baskets_queue,    \* the queue of the direct call on `pair`
    expansions,       \* passes of the expansion loop made so far
    direct,           \* outcome of the direct call on `pair`
    tried,            \* intermediary -> what the filter_map closure did
    res               \* the Option<MakerTaker> returned

args ==
    <<sorted_trades, config, block_timestamp, pair, volume, quality,
      bypass_vol, init_window>>

\* the state of the CEX pricer
pricer ==
    <<sorted_trades, config, block_timestamp, pair, volume, quality,
      bypass_vol, init_window, pc, baskets_queue, expansions, direct, tried,
      res>>

\* State of the composer: the block handed to it and its progress.
VARIABLES
    inspect_crate,    \* "brontes-inspect" or "poirot-inspect"
    block_tree,       \* the block's tree: base fee and transaction roots
    block_metadata,   \* metadata.proposer_mev_reward
    inspector_bundles, \* the bundles returned by the inspectors
    composer_pc,      \* position in the composer
    preprocessed,     \* BlockPreprocessing
    mev_block,        \* the MevBlock header
    grouped_mev,      \* HashMap<MevType, Vec<Bundle>>
    composed          \* the composer's result

composer ==
    <<inspect_crate, block_tree, block_metadata, inspector_bundles,
      composer_pc, preprocessed, mev_block, grouped_mev, composed>>

\* State of the trace parser: the block's sources and execute_block's
\* progress.
VARIABLES
    libmdbx,          \* the Store: load_trace, save_traces, traces saved
    tracer,           \* the TracingProvider's answers and calls received
    features,         \* cargo features of the build
    metrics_tx,       \* the metrics channel
    parser_pc,        \* position in execute_block
    parity_trace,     \* trace_block's result
    receipts,         \* get_receipts' result
    executed          \* execute_block's result

parser ==
    <<libmdbx, tracer, features, metrics_tx, parser_pc, parity_trace,
      receipts, executed>>

\* State of the run command: the arguments and RunArgs::execute's progress.
VARIABLES
    run_args,         \* RunArgs as parsed from the command line
    run_env,          \* outcome of each fallible initialization step
    run_pc,           \* position in RunArgs::execute
    init_steps,       \* the initialization steps made so far
    run_config,       \* the arguments of BrontesRunConfig::new
    run_result        \* the eyre::Result returned

runner ==
    <<run_args, run_env, run_pc, init_steps, run_config, run_result>>

\* State of the DaddyInspector stream: the struct's two Option fields, the
\* inspectors' futures, and what its callers have seen.
VARIABLES
    submitted,            \* the (tree, meta_data) of each on_new_tree call
    inspectors_execution, \* Option<InspectorFut>
    pre_processing,       \* Option<BlockPreprocessing>
    last_poll,            \* how the last poll_next call ended
    emitted               \* the items poll_next has returned Ready(Some(..))

daddy_stream ==
    <<submitted, inspectors_execution, pre_processing, last_poll, emitted>>

vars ==
    <<pricer, composer, parser, runner, daddy_stream>>

\* no DaddyInspector stream exists
StreamIdle ==
    /\ submitted = <<>>
    /\ inspectors_execution = <<>>
    /\ pre_processing = <<>>
    /\ last_poll = <<>>
    /\ emitted = <<>>

\* the run command is not running
RunnerIdle ==
    /\ run_args = <<>>
    /\ run_env = <<>>
    /\ run_pc = "idle"
    /\ init_steps = <<>>
    /\ run_config = <<>>
    /\ run_result = <<>>

\* the composer is not running
ComposerIdle ==
    /\ inspect_crate = "none"
    /\ block_tree = <<>>
    /\ block_metadata = <<>>
    /\ inspector_bundles = <<>>
    /\ composer_pc = "idle"
    /\ preprocessed = <<>>
    /\ mev_block = <<>>
    /\ grouped_mev = <<>>
    /\ composed = <<>>

\* the trace parser is not running
ParserIdle ==
    /\ libmdbx = <<>>
    /\ tracer = <<>>
    /\ features = <<>>
    /\ metrics_tx = <<>>
    /\ parser_pc = "idle"
    /\ parity_trace = <<>>
    /\ receipts = <<>>
    /\ executed = <<>>

\* the CEX pricer is not running
PricerIdle ==
    /\ sorted_trades = <<>>
    /\ config = <<>>
    /\ block_timestamp = 0
    /\ pair = <<>>
    /\ volume = RZero
    /\ quality = None
    /\ bypass_vol = FALSE
    /\ init_window = 0
    /\ pc = "idle"
    /\ baskets_queue = [called |-> FALSE]
    /\ expansions = 0
    /\ direct = [called |-> FALSE]
    /\ tried = <<>>
    /\ res = None

\* the identity price with `pairs` left empty
Identity_NoPair(p) ==
    [maker |-> [trades_used |-> <<>>, pairs |-> <<>>, final_price |-> ROne],
     taker |-> [trades_used |-> <<>>, pairs |-> <<>>, final_price |-> ROne]]

\* the (1, 1) price of a pair of equal tokens
Identity(p) ==
    [maker |-> [trades_used |-> <<>>, pairs |-> <<p>>, final_price |-> ROne],
     taker |-> [trades_used |-> <<>>, pairs |-> <<p>>, final_price |-> ROne]]

Init ==
    /\ sorted_trades \in SortedTradesMaps
    /\ config \in Configs
    /\ block_timestamp = BlockTime
    /\ pair \in QueryPairs
    /\ volume \in {RInt(v) : v \in 1..MaxVolume}
    /\ quality \in QualityTables
    /\ bypass_vol \in BOOLEAN
    /\ init_window \in InitWindows
    /\ pc = "start"
    /\ baskets_queue = NotCalled
    /\ expansions = 0
    /\ direct = NotCalled
    /\ tried = <<>>
    /\ res = None
    /\ ComposerIdle
    /\ ParserIdle
    /\ RunnerIdle
    /\ StreamIdle

\* get_optimistic_price, pair.0 == pair.1
PriceIdentity ==
    /\ pc = "start"
    /\ pair[1] = pair[2]
    /\ res' = Some(Identity(pair))
    /\ pc' = "done"
    /\ UNCHANGED <<args, baskets_queue, expansions, direct, tried>>
    /\ UNCHANGED <<composer, parser, runner, daddy_stream>>

\* get_optimistic_direct on `pair`: get_trades fails
DirectNoTrades ==
    /\ pc = "start"
    /\ pair[1] # pair[2]
    /\ ~get_trades(sorted_trades, pair).some
    /\ direct' = DirectMissing(pair, volume, bypass_vol)
    /\ pc' = "via_intermediary"
    /\ UNCHANGED <<args, baskets_queue, expansions, tried, res>>
    /\ UNCHANGED <<composer, parser, runner, daddy_stream>>

\* get_optimistic_direct on `pair`: the queue is built
DirectStart ==
    /\ pc = "start"
    /\ pair[1] # pair[2]
    /\ get_trades(sorted_trades, pair).some
    /\ baskets_queue' = StartQueue(get_trades(sorted_trades, pair).val,
                                   block_timestamp, pair, quality, init_window)
    /\ pc' = "direct_loop"
    /\ UNCHANGED <<args, expansions, direct, tried, res>>
    /\ UNCHANGED <<composer, parser, runner, daddy_stream>>

\* one pass of the expansion loop
DirectExpand ==
    /\ pc = "direct_loop"
    /\ LoopContinues(baskets_queue, block_timestamp, volume, config)
    /\ baskets_queue' = ExpandStep(baskets_queue, block_timestamp)
    /\ expansions' = expansions + 1
    /\ UNCHANGED <<args, pc, direct, tried, res>>
    /\ UNCHANGED <<composer, parser, runner, daddy_stream>>

\* get_optimistic_price trying the intermediaries whatever the direct call
\* returned
DirectReturns_AlwaysVia(d) ==
    /\ direct' = d
    /\ res' = res
    /\ pc' = "via_intermediary"

\* the loop is left; the direct price is computed and, when there is one,
\* returned by get_optimistic_price
DirectReturns(d) ==
    /\ direct' = d
    /\ IF d.out.some
       THEN res' = d.out /\ pc' = "done"
       ELSE res' = res /\ pc' = "via_intermediary"

DirectFinish ==
    /\ pc = "direct_loop"
    /\ ~LoopContinues(baskets_queue, block_timestamp, volume, config)
    /\ DirectReturns(DirectPrice(baskets_queue, block_timestamp, pair, volume,
                                 bypass_vol))
    /\ UNCHANGED <<args, baskets_queue, expansions, tried>>
    /\ UNCHANGED <<composer, parser, runner, daddy_stream>>

\* the or_else branch: get_optimistic_via_intermediary, whose result
\* get_optimistic_price returns
ViaReturns(t) ==
    /\ tried' = t
    /\ res' \in MaxOverOrders(t, DOMAIN t, None)

ViaIntermediary ==
    /\ pc = "via_intermediary"
    /\ ViaReturns([i \in calculate_intermediary_addresses(sorted_trades, pair)
                     |-> TryIntermediary(sorted_trades, config,
                             block_timestamp, pair, volume, bypass_vol,
                             quality, init_window, i)])
    /\ pc' = "done"
    /\ UNCHANGED <<args, baskets_queue, expansions, direct>>
    /\ UNCHANGED <<composer, parser, runner, daddy_stream>>

Next ==
    \/ PriceIdentity
    \/ DirectNoTrades
    \/ DirectStart
    \/ DirectExpand
    \/ DirectFinish
    \/ ViaIntermediary

Spec ==
    Init /\ [][Next]_vars

(***************************************************************************)
(* Properties                                                              *)
(***************************************************************************)
Distinct ==
    pair[1] # pair[2]

\* every get_optimistic_direct call the run has made so far
DirectCalls ==
    (IF direct.called THEN {direct} ELSE {})
        \cup {tried[i].first_leg : i \in DOMAIN tried}
        \cup {tried[i].second_leg :
                i \in {j \in DOMAIN tried : tried[j].second_leg.called}}

\* the calls that got past get_trades and the volume checks
PricedCalls ==
    {d \in DirectCalls : d.out.some}

\* C1: a pair whose two tokens are equal is priced (1, 1) with no trades used
\* and pairs = [pair], whatever the other arguments, and without any look at
\* the trade map.
C1_Identity ==
    (pc = "done" /\ ~Distinct) =>
        /\ res.some
        /\ res.val.maker.final_price = [n |-> 1, d |-> 1]
        /\ res.val.taker.final_price = [n |-> 1, d |-> 1]
        /\ res.val.maker.trades_used = <<>>
        /\ res.val.taker.trades_used = <<>>
        /\ res.val.maker.pairs = <<pair>>
        /\ res.val.taker.pairs = <<pair>>
        /\ ~direct.called
        /\ tried = <<>>

C1_Witness ==
    /\ pc = "done"
    /\ ~Distinct
    /\ DOMAIN sorted_trades = {}
    /\ res.some
    /\ bypass_vol
    /\ quality.some

\* C2: a get_optimistic_direct call whose chosen trades total less than the
\* requested volume returns no price unless bypass_vol is true.
C2_InsufficientVolumeFails ==
    \A d \in DirectCalls :
        (RLt(d.trade_volume, d.volume) /\ ~d.bypass_vol) => ~d.out.some

C2_Witness ==
    /\ direct.called
    /\ direct.has_trades
    /\ RLt(RZero, direct.trade_volume)
    /\ RLt(direct.trade_volume, direct.volume)
    /\ ~direct.bypass_vol
    /\ ~direct.out.some

StablePairs ==
    {<<"USDC", "USDT">>, <<"USDT", "USDC">>}

Legs(r) ==
    {r.first_leg} \cup (IF r.second_leg.called THEN {r.second_leg} ELSE {})

SameTradesAs(trades, stream, inverted) ==
    /\ Len(trades) = Len(stream)
    /\ \A k \in 1..Len(stream) :
          /\ trades[k].exchange = stream[k].exchange
          /\ trades[k].timestamp = stream[k].timestamp
          /\ trades[k].amount = stream[k].amount
          /\ IF inverted
             THEN /\ trades[k].price.n = stream[k].price.d
                  /\ trades[k].price.d = stream[k].price.n
             ELSE trades[k].price = stream[k].price

\* C4: get_trades hands out the entry of P with direction Sell when there is
\* one (also when flip(P) has one too), else the entry of flip(P) with
\* direction Buy, else nothing.
C4_GetTradesResolution ==
    (Distinct /\ pc # "start") =>
        IF pair \in DOMAIN sorted_trades
        THEN /\ baskets_queue.called
             /\ baskets_queue.direction = "Sell"
             /\ SameTradesAs(baskets_queue.trades, sorted_trades[pair], FALSE)
        ELSE IF <<pair[2], pair[1]>> \in DOMAIN sorted_trades
        THEN /\ baskets_queue.called
             /\ baskets_queue.direction = "Buy"
             /\ SameTradesAs(baskets_queue.trades,
                             sorted_trades[<<pair[2], pair[1]>>], TRUE)
        ELSE /\ baskets_queue = NotCalled
             /\ direct.called
             /\ ~direct.has_trades
             /\ ~direct.out.some

C4_Witness ==
    /\ pc = "direct_loop"
    /\ pair \in DOMAIN sorted_trades
    /\ <<pair[2], pair[1]>> \in DOMAIN sorted_trades
    /\ baskets_queue.direction = "Sell"

\* the routes filter_map let through
PricedRoutes ==
    {i \in DOMAIN tried : tried[i].out.some}

\* C5: for distinct tokens a direct price, when there is one, is the result
\* and no intermediary is tried; the result is None only when the direct call
\* and every intermediary route failed.
C5_DirectFirst ==
    (pc = "done" /\ Distinct) =>
        /\ direct.called
        /\ direct.out.some => (res = direct.out /\ tried = <<>>)
        /\ ~res.some => (~direct.out.some /\ PricedRoutes = {})

\* a direct price is returned although a route through an intermediary would
\* have given a greater maker price
C5_Witness ==
    /\ pc = "done"
    /\ Distinct
    /\ direct.out.some
    /\ res = direct.out
    /\ \E i \in calculate_intermediary_addresses(sorted_trades, pair) :
          LET r == TryIntermediary(sorted_trades, config, block_timestamp,
                       pair, volume, bypass_vol, quality, init_window, i).out
          IN  /\ r.some
              /\ RLt(res.val.maker.final_price, r.val.maker.final_price)

C5_WitnessNone ==
    pc = "done" /\ Distinct /\ ~res.some /\ direct.has_trades

ViaRan ==
    pc = "done" /\ Distinct /\ ~direct.out.some

\* C6: the intermediary result is a priced route whose maker price no priced
\* route exceeds; a route with a failed leg is not priced; the result is None
\* exactly when no route is priced.
C6_MaxMakerRoute ==
    ViaRan =>
        /\ \A i \in PricedRoutes :
              /\ tried[i].first_leg.out.some
              /\ tried[i].second_leg.called
              /\ tried[i].second_leg.out.some
        /\ \A i \in DOMAIN tried :
              (\/ ~tried[i].first_leg.out.some
               \/ ~tried[i].second_leg.called
               \/ ~tried[i].second_leg.out.some) => i \notin PricedRoutes
        /\ res.some <=> PricedRoutes # {}
        /\ res.some =>
              /\ \E i \in PricedRoutes : tried[i].out = res
              /\ \A j \in PricedRoutes :
                    ~RLt(res.val.maker.final_price,
                         tried[j].out.val.maker.final_price)

\* two routes are priced, at different maker prices, and others are not
C6_Witness ==
    /\ ViaRan
    /\ \E i, j \in PricedRoutes :
          /\ tried[i].out = res
          /\ RLt(tried[j].out.val.maker.final_price,
                 res.val.maker.final_price)
    /\ \E k \in DOMAIN tried : ~tried[k].out.some

\* a = b * c, decided without the model's multiplication
IsProduct(a, b, c) ==
    a.n * (b.d * c.d) = a.d * (b.n * c.n)

\* C7: the second leg is priced at V times the first leg's maker price, and
\* the route's maker (taker) is the product of the legs' maker (taker) prices
\* with the legs' pairs and trades concatenated.
C7_RouteComposition ==
    \A i \in DOMAIN tried :
        /\ tried[i].first_leg.pair = <<pair[1], i>>
        /\ tried[i].first_leg.volume = volume
        /\ tried[i].second_leg.called =>
              /\ tried[i].first_leg.out.some
              /\ tried[i].second_leg.pair = <<i, pair[2]>>
              /\ IsProduct(tried[i].second_leg.volume, volume,
                           tried[i].first_leg.out.val.maker.final_price)
        /\ tried[i].out.some =>
              LET a == tried[i].first_leg.out.val
                  b == tried[i].second_leg.out.val
                  o == tried[i].out.val
              IN  /\ o.maker.final_price
                        = RMul(a.maker.final_price, b.maker.final_price)
                  /\ o.taker.final_price
                        = RMul(a.taker.final_price, b.taker.final_price)
                  /\ o.maker.pairs = << <<pair[1], i>>, <<i, pair[2]>> >>
                  /\ o.taker.pairs = << <<pair[1], i>>, <<i, pair[2]>> >>
                  /\ o.maker.trades_used
                        = a.maker.trades_used \o b.maker.trades_used
                  /\ o.taker.trades_used
                        = a.taker.trades_used \o b.taker.trades_used

C7_Witness ==
    \E i \in PricedRoutes :
        /\ tried[i].first_leg.out.val.maker.final_price # ROne
        /\ tried[i].second_leg.out.val.maker.final_price # ROne
        /\ tried[i].second_leg.volume # volume
        /\ Len(tried[i].out.val.maker.trades_used) >= 3

\* C8: a pass of the expansion loop is made only while the queue's volume is
\* below V and neither boundary has reached its configured maximum; every
\* pass moves the post-block boundary by TIME_STEP towards its maximum, so
\* the number of passes is bounded and the loop is left.
C8_ExpansionStep ==
    (pc = "direct_loop" /\ baskets_queue' # baskets_queue) =>
        /\ RLt(baskets_queue.volume, volume)
        /\ block_timestamp - baskets_queue.min_timestamp
              < config.optimistic_before_us
        /\ baskets_queue.max_timestamp - block_timestamp
              < config.optimistic_after_us
        /\ baskets_queue'.max_timestamp
              = baskets_queue.max_timestamp + 100000
        /\ expansions' = expansions + 1
        /\ pc' = "direct_loop"

\* once a boundary is at its maximum the queue no longer changes
C8_StopAtBoundary ==
    (/\ pc = "direct_loop"
     /\ \/ block_timestamp - baskets_queue.min_timestamp
              >= config.optimistic_before_us
        \/ baskets_queue.max_timestamp - block_timestamp
              >= config.optimistic_after_us)
        => (baskets_queue' = baskets_queue /\ expansions' = expansions)

\* the passes are counted out by the post-block maximum: pass k starts from
\* a post-block delta of init_window + (k - 1) * TIME_STEP below the maximum
C8_BoundedPasses ==
    expansions > 0 =>
        init_window + (expansions - 1) * 100000 < config.optimistic_after_us

C8_LoopTerminates ==
    /\ [][C8_ExpansionStep /\ C8_StopAtBoundary]_vars
    /\ []C8_BoundedPasses

\* the loop was stopped by a boundary with the volume still short
C8_Witness ==
    /\ pc # "direct_loop"
    /\ direct.called
    /\ direct.has_trades
    /\ expansions >= 2
    /\ RLt(direct.queue_volume, volume)
    /\ \/ direct.min_delta >= config.optimistic_before_us
       \/ direct.max_delta >= config.optimistic_after_us

\* a pass of the expansion loop
ExpansionPass ==
    pc = "direct_loop" /\ expansions' = expansions + 1

BothSides ==
    /\ baskets_queue'.min_timestamp = baskets_queue.min_timestamp - 100000
    /\ baskets_queue'.max_timestamp = baskets_queue.max_timestamp + 100000

FarSideOnly ==
    /\ baskets_queue'.min_timestamp = baskets_queue.min_timestamp
    /\ baskets_queue'.max_timestamp = baskets_queue.max_timestamp + 100000

\* C9 as stated: both sides are expanded once the max delta has exceeded
\* PRE_SCALING_DIFF (> 200_000), otherwise only the far side.
C9_AsStated ==
    [][ExpansionPass =>
          IF baskets_queue.max_timestamp - block_timestamp > 200000
          THEN BothSides ELSE FarSideOnly]_vars

\* C9 amended: both sides are expanded once the max delta has reached
\* PRE_SCALING_DIFF (>= 200_000), otherwise only the far side.
C9_ExpandBothFromPreScaling ==
    [][ExpansionPass =>
          IF baskets_queue.max_timestamp - block_timestamp >= 200000
          THEN BothSides ELSE FarSideOnly]_vars

\* the window after a pass made at a max delta of exactly PRE_SCALING_DIFF
C9_Witness ==
    /\ pc = "direct_loop"
    /\ expansions = 3
    /\ baskets_queue.max_timestamp - block_timestamp = 300000
    /\ block_timestamp - baskets_queue.min_timestamp = 100000

\* price * (1 - fee) of a trade used, fee the maker (k = 1) or taker (k = 2)
\* fee of the trade's exchange
NetPrice(t, k) ==
    RMul(t.price, RSub(ROne, fees(t.exchange)[k]))

\* sum of amount * w over the trades used
RECURSIVE SumWeights(_, _)
SumWeights(used, T) ==
    IF used = <<>> THEN RZero
    ELSE RAdd(RMul(Head(used).volume, calculate_weight(T, Head(used).timestamp)),
              SumWeights(Tail(used), T))

\* sum of price * (1 - fee) * amount * w over the trades used
RECURSIVE SumNet(_, _, _)
SumNet(used, T, k) ==
    IF used = <<>> THEN RZero
    ELSE RAdd(RMul(NetPrice(Head(used), k),
                   RMul(Head(used).volume,
                        calculate_weight(T, Head(used).timestamp))),
              SumNet(Tail(used), T, k))

IsWeightedAverage(price, used, T, k) ==
    /\ used # <<>>
    /\ SumWeights(used, T) # RZero
    /\ RMul(price.final_price, SumWeights(used, T)) = SumNet(used, T, k)
    /\ \E i \in 1..Len(used) : RLe(NetPrice(used[i], k), price.final_price)
    /\ \E i \in 1..Len(used) : RLe(price.final_price, NetPrice(used[i], k))

\* C10: a direct price is the weighted average of price * (1 - fee) over the
\* trades used, weights amount * w, so it lies between the least and the
\* greatest price * (1 - fee) used; maker and taker carry the same trades and
\* pairs = [pair].
C10_WeightedAverage ==
    \A d \in PricedCalls :
        /\ d.out.val.maker.trades_used = d.out.val.taker.trades_used
        /\ d.out.val.maker.pairs = <<d.pair>>
        /\ d.out.val.taker.pairs = <<d.pair>>
        /\ \A i \in 1..Len(d.out.val.maker.trades_used) :
              d.out.val.maker.trades_used[i].pair = d.pair
        /\ IsWeightedAverage(d.out.val.maker, d.out.val.maker.trades_used,
                             block_timestamp, 1)
        /\ IsWeightedAverage(d.out.val.taker, d.out.val.taker.trades_used,
                             block_timestamp, 2)

\* a direct price strictly between the net prices of two trades used, which
\* carry different weights
C10_Witness ==
    /\ direct.called
    /\ direct.out.some
    /\ \E i, j \in 1..Len(direct.out.val.maker.trades_used) :
          LET used == direct.out.val.maker.trades_used
          IN  /\ RLt(NetPrice(used[i], 1), direct.out.val.maker.final_price)
              /\ RLt(direct.out.val.maker.final_price, NetPrice(used[j], 1))
              /\ calculate_weight(block_timestamp, used[i].timestamp)
                    # calculate_weight(block_timestamp, used[j].timestamp)

(***************************************************************************)
(* Flip symmetry of the direct price                                       *)
(***************************************************************************)
\* the direct price of flip(p) at the volume V * maker price of p
FlippedDirect(maker_price) ==
    get_optimistic_direct(sorted_trades, config, block_timestamp, flip(pair),
                          RMul(volume, maker_price), bypass_vol, quality,
                          init_window)

ReciprocalMaker(maker_price, flipped) ==
    flipped.out.some =>
        flipped.out.val.maker.final_price = RRecip(maker_price)

\* the map holds one stream for the pair: under `pair` or under flip(pair)
OneStream ==
    (pair \in DOMAIN sorted_trades) # (flip(pair) \in DOMAIN sorted_trades)

MaxTxs ==
    2

\* bundles handed to the composer
MaxBundles ==
    3

MevType ==
    {"Sandwich", "Jit", "Backrun", "CexDex", "JitSandwich", "Liquidation",
     "Unknown"}

\* root.gas_details of a transaction root under the header's base fee
GasDetails(gas_used, priority_fee, base_fee) ==
    [gas_used            |-> gas_used,
     priority_fee        |-> priority_fee,
     effective_gas_price |-> base_fee + priority_fee]

BaseFees ==
    {0, 7}

\* (gas_used, priority_fee) of the transactions a tree may hold
TxGas ==
    {<<21, 1>>, <<50, 3>>}

RootsOf(txs, base_fee) ==
    [i \in 1..Len(txs) |-> GasDetails(txs[i][1], txs[i][2], base_fee)]

BlockTrees ==
    { [base_fee |-> b, tx_roots |-> RootsOf(txs, b)] :
        b \in BaseFees,
        txs \in UNION { [1..n -> TxGas] : n \in 0..MaxTxs } }

\* metadata.proposer_mev_reward: Option<u128>
ProposerRewards ==
    {None, Some(5), Some(90)}

\* Bundle: header.mev_type, header.profit_usd, data.bribe(),
\* data.priority_fee_paid(), data.mev_transaction_hashes()
Bundle(mev_type, profit_usd, bribe, priority_fee_paid, tx_hashes) ==
    [mev_type          |-> mev_type,
     profit_usd        |-> profit_usd,
     bribe             |-> bribe,
     priority_fee_paid |-> priority_fee_paid,
     tx_hashes         |-> tx_hashes]

BundleUniverse ==
    { Bundle("Sandwich", 100, 8, 2, <<"F0", "V0", "B0">>),
      Bundle("Backrun", 0, 1, 1, <<"B0">>),
      Bundle("Backrun", 5, 2, 1, <<"F0">>),
      Bundle("Jit", -3, 4, 1, <<"F0", "V0", "B0">>),
      Bundle("Jit", 2, 1, 0, <<"V0">>),
      Bundle("CexDex", -1, 3, 1, <<"X0">>),
      Bundle("Unknown", 1, 0, 0, <<"Y0">>) }

IsInjective(f) ==
    \A i, j \in DOMAIN f : f[i] = f[j] => i = j

\* the bundles the inspectors return: distinct bundles in any order
BundleLists ==
    { l \in UNION { [1..n -> BundleUniverse] : n \in 0..MaxBundles } :
        IsInjective(l) }

(***************************************************************************)
(* brontes-inspect composer/utils.rs                                       *)
(***************************************************************************)
RECURSIVE SumGasUsed(_)
SumGasUsed(roots) ==
    IF roots = <<>> THEN 0
    ELSE Head(roots).gas_used + SumGasUsed(Tail(roots))

RECURSIVE SumPriorityFee(_)
SumPriorityFee(roots) ==
    IF roots = <<>> THEN 0
    ELSE Head(roots).priority_fee + SumPriorityFee(Tail(roots))

\* pre_process with the effective gas price summed for the priority fee
pre_process_EffectivePrice(tree, meta_data) ==
    [meta_data               |-> meta_data,
     cumulative_gas_used     |-> SumGasUsed(tree.tx_roots),
     cumulative_priority_fee |->
         SumPriorityFee(tree.tx_roots)
             + Len(tree.tx_roots) * tree.base_fee]

\* pre_process with the gas of the first transaction root only
pre_process_FirstRoot(tree, meta_data) ==
    [meta_data               |-> meta_data,
     cumulative_gas_used     |->
         IF tree.tx_roots = <<>> THEN 0 ELSE Head(tree.tx_roots).gas_used,
     cumulative_priority_fee |-> SumPriorityFee(tree.tx_roots)]

pre_process(tree, meta_data) ==
    [meta_data               |-> meta_data,
     cumulative_gas_used     |-> SumGasUsed(tree.tx_roots),
     cumulative_priority_fee |-> SumPriorityFee(tree.tx_roots)]

RECURSIVE TotalBribe(_)
TotalBribe(orchestra_data) ==
    IF orchestra_data = <<>> THEN 0
    ELSE Head(orchestra_data).bribe + TotalBribe(Tail(orchestra_data))

RECURSIVE CumMevPriorityFeePaid(_)
CumMevPriorityFeePaid(orchestra_data) ==
    IF orchestra_data = <<>> THEN 0
    ELSE Head(orchestra_data).priority_fee_paid
             + CumMevPriorityFeePaid(Tail(orchestra_data))

\* Rational::from_signeds(n, 10^exponent)
from_signeds(n, exponent) ==
    [n |-> n, e |-> exponent]

\* f64::rounding_from(&rational, RoundingMode::Nearest).0
rounding_from(rational) ==
    [nearest_f64_to |-> rational]

\* Option::unwrap_or_default
unwrap_or_default(opt) ==
    IF opt.some THEN opt.val ELSE 0

\* MevCount::default()
MevCountDefault ==
    [mev_count            |-> 0,
     sandwich_count       |-> None,
     cex_dex_count        |-> None,
     jit_count            |-> None,
     jit_sandwich_count   |-> None,
     atomic_backrun_count |-> None,
     liquidation_count    |-> None]

\* the fields of the MevBlock that are sums or counts (the USD projections
\* and the addresses are left out)
build_mev_header(metadata, pre, orchestra_data) ==
    [mev_count                        |-> MevCountDefault,
     cumulative_gas_used              |-> pre.cumulative_gas_used,
     cumulative_priority_fee          |->
         pre.cumulative_priority_fee,
     total_bribe                      |-> TotalBribe(orchestra_data),
     cumulative_mev_priority_fee_paid |->
         CumMevPriorityFeePaid(orchestra_data),
     builder_eth_profit               |->
         rounding_from(from_signeds(
             (TotalBribe(orchestra_data)
                  + pre.cumulative_priority_fee)
                 - unwrap_or_default(metadata.proposer_mev_reward),
             18))]

RECURSIVE OfType(_, _)
OfType(bundles, mev_type) ==
    IF bundles = <<>> THEN <<>>
    ELSE IF Head(bundles).mev_type = mev_type
         THEN <<Head(bundles)>> \o OfType(Tail(bundles), mev_type)
         ELSE OfType(Tail(bundles), mev_type)

\* HashMap<MevType, Vec<Bundle>>: a key for every type that has a bundle
sort_mev_by_type(orchestra_data) ==
    [t \in {orchestra_data[i].mev_type : i \in DOMAIN orchestra_data}
        |-> OfType(orchestra_data, t)]

\* the filter keeping every bundle with a profit that is not negative
KeepBundle_NonNegative(mev_type, bundle) ==
    IF mev_type \in {"Sandwich", "Jit", "Backrun"}
    THEN bundle.profit_usd >= 0
    ELSE TRUE

\* the closure of `.filter(...)` in filter_and_count_bundles
KeepBundle(mev_type, bundle) ==
    IF mev_type \in {"Sandwich", "Jit", "Backrun"}
    THEN bundle.profit_usd > 0
    ELSE TRUE

RECURSIVE FilterBundles(_, _)
FilterBundles(mev_type, bundles) ==
    IF bundles = <<>> THEN <<>>
    ELSE IF KeepBundle(mev_type, Head(bundles))
         THEN <<Head(bundles)>> \o FilterBundles(mev_type, Tail(bundles))
         ELSE FilterBundles(mev_type, Tail(bundles))

\* update_mev_count with no arm for CexDex
update_mev_count_NoCexDex(mev_count, mev_type, count) ==
    CASE mev_type = "Sandwich" ->
            [mev_count EXCEPT !.sandwich_count = Some(count)]
      [] mev_type = "Jit" ->
            [mev_count EXCEPT !.jit_count = Some(count)]
      [] mev_type = "JitSandwich" ->
            [mev_count EXCEPT !.jit_sandwich_count = Some(count)]
      [] mev_type = "Backrun" ->
            [mev_count EXCEPT !.atomic_backrun_count = Some(count)]
      [] mev_type = "Liquidation" ->
            [mev_count EXCEPT !.liquidation_count = Some(count)]
      [] OTHER -> mev_count

update_mev_count(mev_count, mev_type, count) ==
    CASE mev_type = "Sandwich" ->
            [mev_count EXCEPT !.sandwich_count = Some(count)]
      [] mev_type = "CexDex" ->
            [mev_count EXCEPT !.cex_dex_count = Some(count)]
      [] mev_type = "Jit" ->
            [mev_count EXCEPT !.jit_count = Some(count)]
      [] mev_type = "JitSandwich" ->
            [mev_count EXCEPT !.jit_sandwich_count = Some(count)]
      [] mev_type = "Backrun" ->
            [mev_count EXCEPT !.atomic_backrun_count = Some(count)]
      [] mev_type = "Liquidation" ->
            [mev_count EXCEPT !.liquidation_count = Some(count)]
      [] mev_type = "Unknown" -> mev_count

\* `mev_count.mev_count += count` and the guarded update_mev_count call
AddCount(mev_count, mev_type, count) ==
    IF count # 0
    THEN update_mev_count([mev_count EXCEPT !.mev_count = @ + count],
                          mev_type, count)
    ELSE [mev_count EXCEPT !.mev_count = @ + count]

\* the body of `for (mev_type, bundles) in sorted_mev`
CountType(acc, mev_type, filtered_bundles) ==
    [mev_count            |-> AddCount(acc.mev_count, mev_type,
                                       Len(filtered_bundles)),
     all_filtered_bundles |-> acc.all_filtered_bundles \o filtered_bundles]

\* the loop over the map's entries in the order `order`
RECURSIVE FilterAndCount(_, _, _)
FilterAndCount(sorted_mev, order, acc) ==
    IF order = <<>> THEN acc
    ELSE FilterAndCount(sorted_mev, Tail(order),
             CountType(acc, Head(order),
                       FilterBundles(Head(order), sorted_mev[Head(order)])))

\* the orders in which a HashMap with the key set `keys` can be iterated
IterationOrders(keys) ==
    { o \in [1..Cardinality(keys) -> keys] : IsInjective(o) }

\* filter_and_count_bundles: its results over the map's iteration orders
filter_and_count_bundles(sorted_mev) ==
    { FilterAndCount(sorted_mev, o,
          [mev_count |-> MevCountDefault, all_filtered_bundles |-> <<>>]) :
        o \in IterationOrders(DOMAIN sorted_mev) }

(***************************************************************************)
(* poirot-inspect daddy_inspector.rs                                       *)
(***************************************************************************)
RECURSIVE SumGasPaid(_)
SumGasPaid(roots) ==
    IF roots = <<>> THEN 0
    ELSE Head(roots).effective_gas_price * Head(roots).gas_used
             + SumGasPaid(Tail(roots))

\* DaddyInspector::pre_process
DaddyInspector_pre_process(tree, meta_data) ==
    [meta_data           |-> meta_data,
     cumulative_gas_used |-> SumGasUsed(tree.tx_roots),
     cumulative_gas_paid |-> SumGasPaid(tree.tx_roots)]

\* DaddyInspector::build_mev_header: the fields that are sums or counts
DaddyInspector_build_mev_header(pre, baby_data) ==
    [mev_count                        |-> Len(baby_data),
     cumulative_gas_used              |-> pre.cumulative_gas_used,
     cumulative_gas_paid              |-> pre.cumulative_gas_paid,
     total_bribe                      |-> TotalBribe(baby_data),
     cumulative_mev_priority_fee_paid |-> CumMevPriorityFeePaid(baby_data),
     builder_eth_profit               |->
         [u64 |-> 0 + pre.cumulative_gas_paid]]

\* mev_composability!: (head type, has a compose function, dependencies)
MEV_FILTER ==
    << [head |-> "Sandwich", compose |-> FALSE, deps |-> <<"Backrun", "Jit">>],
       [head |-> "JitSandwich", compose |-> TRUE,
        deps |-> <<"Sandwich", "Jit">>] >>

Range(f) ==
    {f[i] : i \in DOMAIN f}

\* dep_hashes.iter().map(|hash| hashes.contains(hash)).any(|f| f)
AnyContained(dep_hashes, hashes) ==
    \E i \in DOMAIN dep_hashes : dep_hashes[i] \in Range(hashes)

\* remove_count.entry(dep).or_default()
Adjustment(remove_count, dep) ==
    IF dep \in DOMAIN remove_count THEN remove_count[dep] ELSE 0

Bump(remove_count, dep) ==
    [d \in DOMAIN remove_count \cup {dep} |->
        IF d = dep THEN Adjustment(remove_count, dep) + 1
        ELSE remove_count[d]]

\* a match pushes (dep, index) and increments the adjustment
PushRemove(acc, dep, index) ==
    [remove_count |-> Bump(acc.remove_count, dep),
     remove_data  |-> Append(acc.remove_data, <<dep, index>>)]

\* `for (i, (_, specific)) in dep_mev.iter().enumerate()`, i counted from
\* 0; an index below 0 stands for the usize subtraction that overflows
RECURSIVE ScanDep(_, _, _, _, _)
ScanDep(hashes, dep, dep_mev, i, acc) ==
    IF i >= Len(dep_mev) THEN acc
    ELSE ScanDep(hashes, dep, dep_mev, i + 1,
             IF dep_mev[i + 1].tx_hashes = hashes
             THEN PushRemove(acc, dep,
                             i - Adjustment(acc.remove_count, dep))
             ELSE IF AnyContained(dep_mev[i + 1].tx_hashes, hashes)
                  THEN PushRemove(acc, dep,
                                  i + Adjustment(acc.remove_count, dep))
                  ELSE acc)

\* `for dep in deps`
RECURSIVE ScanDeps(_, _, _, _)
ScanDeps(hashes, deps, sorted_mev, acc) ==
    IF deps = <<>> THEN acc
    ELSE ScanDeps(hashes, Tail(deps), sorted_mev,
             IF Head(deps) \in DOMAIN sorted_mev
             THEN ScanDep(hashes, Head(deps), sorted_mev[Head(deps)], 0, acc)
             ELSE acc)

\* head_mev.iter().flat_map(...).collect()
RECURSIVE ScanHeads(_, _, _, _)
ScanHeads(head_mev, deps, sorted_mev, acc) ==
    IF head_mev = <<>> THEN acc
    ELSE ScanHeads(Tail(head_mev), deps, sorted_mev,
             ScanDeps(Head(head_mev).tx_hashes, deps, sorted_mev, acc))

\* Vec::remove(index), index counted from 0
RemoveAt(v, index) ==
    SubSeq(v, 1, index) \o SubSeq(v, index + 2, Len(v))

Panic ==
    [panicked |-> TRUE]

Returned(sorted_mev) ==
    [panicked |-> FALSE, sorted_mev |-> sorted_mev]

\* `for (mev_type, index) in flattend_indexes { ...remove(index); }`:
\* Vec::remove panics on an index that is not below the length
RECURSIVE RemoveAll(_, _)
RemoveAll(remove_data, sorted_mev) ==
    IF remove_data = <<>> THEN Returned(sorted_mev)
    ELSE IF \/ Head(remove_data)[2] < 0
            \/ Head(remove_data)[2] >= Len(sorted_mev[Head(remove_data)[1]])
         THEN Panic
         ELSE RemoveAll(Tail(remove_data),
                  [sorted_mev EXCEPT ![Head(remove_data)[1]] =
                       RemoveAt(@, Head(remove_data)[2])])

\* replace_dep_filter leaving the dependencies in place
replace_dep_filter_KeepDeps(head_mev_type, deps, sorted_mev) ==
    Returned(sorted_mev)

\* DaddyInspector::replace_dep_filter
replace_dep_filter(head_mev_type, deps, sorted_mev) ==
    IF head_mev_type \notin DOMAIN sorted_mev
    THEN Returned(sorted_mev)
    ELSE RemoveAll(
             ScanHeads(sorted_mev[head_mev_type], deps, sorted_mev,
                       [remove_count |-> <<>>, remove_data |-> <<>>])
                 .remove_data,
             sorted_mev)

\* HashMap::remove(key)
MapRemove(m, key) ==
    [k \in DOMAIN m \ {key} |-> m[k]]

\* m.entry(key).or_default().push(v)
MapPush(m, key, v) ==
    [k \in DOMAIN m \cup {key} |->
        IF k # key THEN m[k]
        ELSE IF key \in DOMAIN m THEN Append(m[key], v) ELSE <<v>>]

\* the hashes of `more` that `hashes` does not hold yet, in order
RECURSIVE NewHashes(_, _)
NewHashes(hashes, more) ==
    IF more = <<>> THEN <<>>
    ELSE IF Head(more) \in Range(hashes)
         THEN NewHashes(hashes, Tail(more))
         ELSE <<Head(more)>> \o NewHashes(hashes, Tail(more))

\* poirot_types::classified_mev::compose_sandwich_jit
compose_sandwich_jit(sandwich, jit) ==
    Bundle("JitSandwich",
           sandwich.profit_usd + jit.profit_usd,
           sandwich.bribe + jit.bribe,
           sandwich.priority_fee_paid + jit.priority_fee_paid,
           sandwich.tx_hashes \o NewHashes(sandwich.tx_hashes, jit.tx_hashes))

\* the predicate of `.find(...)` over one_txes
Composable(addresses, o_addrs) ==
    \/ o_addrs = addresses
    \/ \E i \in DOMAIN addresses : addresses[i] \in Range(o_addrs)

\* index (from 1) of the first composable entry of one_txes, 0 when none
FindComposable(addresses, one_txes) ==
    IF \E j \in DOMAIN one_txes : Composable(addresses, one_txes[j].tx_hashes)
    THEN CHOOSE j \in DOMAIN one_txes :
             /\ Composable(addresses, one_txes[j].tx_hashes)
             /\ \A k \in 1..(j - 1) :
                    ~Composable(addresses, one_txes[k].tx_hashes)
    ELSE 0

\* the body of `for (classified, mev_data) in zero_txes`
ComposeOne(parent_mev_type, composable_types, sorted_mev, zero, index) ==
    IF index # 0
    THEN MapPush([sorted_mev EXCEPT ![composable_types[2]] =
                      RemoveAt(@, index - 1)],
                 parent_mev_type,
                 compose_sandwich_jit(zero,
                     sorted_mev[composable_types[2]][index]))
    ELSE MapPush(sorted_mev, composable_types[1], zero)

RECURSIVE ComposeLoop(_, _, _, _)
ComposeLoop(parent_mev_type, composable_types, zero_txes, sorted_mev) ==
    IF zero_txes = <<>> THEN sorted_mev
    ELSE ComposeLoop(parent_mev_type, composable_types, Tail(zero_txes),
             ComposeOne(parent_mev_type, composable_types, sorted_mev,
                        Head(zero_txes),
                        FindComposable(Head(zero_txes).tx_hashes,
                                       sorted_mev[composable_types[2]])))

\* DaddyInspector::compose_dep_filter; the two `unwrap()`s panic when the
\* map has no entry for a composable type
compose_dep_filter(parent_mev_type, composable_types, sorted_mev) ==
    IF \/ Len(composable_types) # 2
       \/ composable_types[1] \notin DOMAIN sorted_mev
       \/ composable_types[2] \notin DOMAIN sorted_mev
    THEN Panic
    ELSE Returned(ComposeLoop(parent_mev_type, composable_types,
                      sorted_mev[composable_types[1]],
                      MapRemove(sorted_mev, composable_types[1])))

\* the types on_baby_resolution has a downcast for; any other reaches todo!()
DowncastTypes ==
    {"Jit", "CexDex", "Sandwich", "JitSandwich", "Liquidation", "Backrun"}

\* the downcast of the sorted results into DaddyInspectorResults
Downcast(sorted_mev) ==
    IF \E k \in DOMAIN sorted_mev :
           k \notin DowncastTypes /\ sorted_mev[k] # <<>>
    THEN Panic
    ELSE Returned(sorted_mev)

(***************************************************************************)
(* The composer's state machine: one block through the composer of         *)
(* brontes-inspect (pre_process, build_mev_header, sort_mev_by_type,       *)
(* filter_and_count_bundles) or through poirot-inspect's DaddyInspector    *)
(* (on_new_tree, on_baby_resolution with the MEV_FILTER table).            *)
(***************************************************************************)
ComposerInit ==
    /\ inspect_crate \in {"brontes-inspect", "poirot-inspect"}
    /\ block_tree \in BlockTrees
    /\ block_metadata \in {[proposer_mev_reward |-> r] : r \in ProposerRewards}
    /\ inspector_bundles \in BundleLists
    /\ composer_pc = "start"
    /\ preprocessed = <<>>
    /\ mev_block = <<>>
    /\ grouped_mev = <<>>
    /\ composed = <<>>
    /\ PricerIdle
    /\ ParserIdle
    /\ RunnerIdle
    /\ StreamIdle

\* the block handed to the composer
block ==
    <<inspect_crate, block_tree, block_metadata, inspector_bundles>>

\* composer/utils.rs pre_process
PreProcess ==
    /\ inspect_crate = "brontes-inspect"
    /\ composer_pc = "start"
    /\ preprocessed' = pre_process(block_tree, block_metadata)
    /\ composer_pc' = "build_mev_header"
    /\ UNCHANGED <<block, mev_block, grouped_mev, composed>>
    /\ UNCHANGED <<pricer, parser, runner, daddy_stream>>

\* composer/utils.rs build_mev_header
BuildMevHeader ==
    /\ inspect_crate = "brontes-inspect"
    /\ composer_pc = "build_mev_header"
    /\ mev_block' = build_mev_header(block_metadata, preprocessed,
                                     inspector_bundles)
    /\ composer_pc' = "sort_mev_by_type"
    /\ UNCHANGED <<block, preprocessed, grouped_mev, composed>>
    /\ UNCHANGED <<pricer, parser, runner, daddy_stream>>

\* composer/utils.rs sort_mev_by_type
SortMevByType ==
    /\ inspect_crate = "brontes-inspect"
    /\ composer_pc = "sort_mev_by_type"
    /\ grouped_mev' = sort_mev_by_type(inspector_bundles)
    /\ composer_pc' = "filter_and_count_bundles"
    /\ UNCHANGED <<block, preprocessed, mev_block, composed>>
    /\ UNCHANGED <<pricer, parser, runner, daddy_stream>>

\* composer/utils.rs filter_and_count_bundles
FilterAndCountBundles ==
    /\ inspect_crate = "brontes-inspect"
    /\ composer_pc = "filter_and_count_bundles"
    /\ composed' \in filter_and_count_bundles(grouped_mev)
    /\ composer_pc' = "done"
    /\ UNCHANGED <<block, preprocessed, mev_block, grouped_mev>>
    /\ UNCHANGED <<pricer, parser, runner, daddy_stream>>

\* DaddyInspector::on_new_tree
OnNewTree ==
    /\ inspect_crate = "poirot-inspect"
    /\ composer_pc = "start"
    /\ preprocessed' = DaddyInspector_pre_process(block_tree, block_metadata)
    /\ composer_pc' = "on_baby_resolution"
    /\ UNCHANGED <<block, mev_block, grouped_mev, composed>>
    /\ UNCHANGED <<pricer, parser, runner, daddy_stream>>

\* on_baby_resolution: the header and the grouping by type
OnBabyResolution ==
    /\ inspect_crate = "poirot-inspect"
    /\ composer_pc = "on_baby_resolution"
    /\ mev_block' = DaddyInspector_build_mev_header(preprocessed,
                                                    inspector_bundles)
    /\ grouped_mev' = sort_mev_by_type(inspector_bundles)
    /\ composer_pc' = "reduce"
    /\ UNCHANGED <<block, preprocessed, composed>>
    /\ UNCHANGED <<pricer, parser, runner, daddy_stream>>

\* a step of on_baby_resolution returned `r` or panicked
Resolved(r, step, next_pc) ==
    IF r.panicked
    THEN /\ composer_pc' = "panicked"
         /\ composed' = [panicked_in |-> step]
         /\ grouped_mev' = grouped_mev
    ELSE /\ composer_pc' = next_pc
         /\ composed' = composed
         /\ grouped_mev' = r.sorted_mev

\* on_baby_resolution: MEV_FILTER[0], Sandwich => Backrun, Jit
Reduce ==
    /\ composer_pc = "reduce"
    /\ Resolved(replace_dep_filter(MEV_FILTER[1].head, MEV_FILTER[1].deps,
                                   grouped_mev),
                "replace_dep_filter", "compose")
    /\ UNCHANGED <<block, preprocessed, mev_block>>
    /\ UNCHANGED <<pricer, parser, runner, daddy_stream>>

\* on_baby_resolution: MEV_FILTER[1], JitSandwich => Sandwich, Jit
Compose ==
    /\ composer_pc = "compose"
    /\ Resolved(compose_dep_filter(MEV_FILTER[2].head, MEV_FILTER[2].deps,
                                   grouped_mev),
                "compose_dep_filter", "downcast")
    /\ UNCHANGED <<block, preprocessed, mev_block>>
    /\ UNCHANGED <<pricer, parser, runner, daddy_stream>>

\* the results returned by on_baby_resolution, or todo!() reached
Downcasted(r) ==
    IF r.panicked
    THEN composer_pc' = "panicked" /\ composed' = [panicked_in |-> "downcast"]
    ELSE composer_pc' = "done" /\ composed' = r.sorted_mev

\* on_baby_resolution: the downcast and Poll::Ready
DowncastResults ==
    /\ composer_pc = "downcast"
    /\ Downcasted(Downcast(grouped_mev))
    /\ UNCHANGED <<block, preprocessed, mev_block, grouped_mev>>
    /\ UNCHANGED <<pricer, parser, runner, daddy_stream>>

ComposerNext ==
    \/ PreProcess
    \/ BuildMevHeader
    \/ SortMevByType
    \/ FilterAndCountBundles
    \/ OnNewTree
    \/ OnBabyResolution
    \/ Reduce
    \/ Compose
    \/ DowncastResults

ComposerSpec ==
    ComposerInit /\ [][ComposerNext]_vars

(***************************************************************************)
(* Properties of the composer                                              *)
(***************************************************************************)
\* the bundles of a grouped map
BundlesOf(grouped) ==
    UNION { Range(grouped[t]) : t \in DOMAIN grouped }

\* filter_and_count_bundles has returned
Filtered ==
    inspect_crate = "brontes-inspect" /\ composer_pc = "done"

ProfitFiltered ==
    {"Sandwich", "Jit", "Backrun"}

\* C12: filter_and_count_bundles returns the bundles of its input except the
\* Sandwich, Jit and Backrun bundles with profit_usd <= 0, each once and
\* with its type.
C12_FilterByProfit ==
    Filtered =>
        /\ Range(composed.all_filtered_bundles)
             = { b \in BundlesOf(grouped_mev) :
                   ~(b.mev_type \in ProfitFiltered /\ b.profit_usd <= 0) }
        /\ IsInjective(composed.all_filtered_bundles)
        /\ \A b \in BundlesOf(grouped_mev) :
               b.mev_type \notin ProfitFiltered
                   => b \in Range(composed.all_filtered_bundles)

\* a Backrun at profit 0 and a Jit at a loss were dropped, a CexDex at a
\* loss and a Sandwich at a profit were kept
C12_Witness ==
    /\ Filtered
    /\ \E b \in BundlesOf(grouped_mev) :
           /\ b.mev_type = "Backrun" /\ b.profit_usd = 0
           /\ b \notin Range(composed.all_filtered_bundles)
    /\ \E b \in Range(composed.all_filtered_bundles) :
           b.mev_type = "CexDex" /\ b.profit_usd < 0
    /\ \E b \in Range(composed.all_filtered_bundles) :
           b.mev_type = "Sandwich" /\ b.profit_usd > 0

\* the count field of a type in MevCount; Unknown has none
CountField(mev_count, mev_type) ==
    CASE mev_type = "Sandwich" -> mev_count.sandwich_count
      [] mev_type = "CexDex" -> mev_count.cex_dex_count
      [] mev_type = "Jit" -> mev_count.jit_count
      [] mev_type = "JitSandwich" -> mev_count.jit_sandwich_count
      [] mev_type = "Backrun" -> mev_count.atomic_backrun_count
      [] mev_type = "Liquidation" -> mev_count.liquidation_count
      [] OTHER -> None

\* number of returned bundles of a type
Returned_n(mev_type) ==
    Cardinality({ i \in DOMAIN composed.all_filtered_bundles :
                    composed.all_filtered_bundles[i].mev_type = mev_type })

RECURSIVE SumCounts(_, _)
SumCounts(mev_count, types) ==
    IF types = {} THEN 0
    ELSE LET t == CHOOSE x \in types : TRUE
         IN unwrap_or_default(CountField(mev_count, t))
                + SumCounts(mev_count, types \ {t})

CountMatches(mev_type) ==
    CountField(composed.mev_count, mev_type)
        = IF Returned_n(mev_type) > 0 THEN Some(Returned_n(mev_type))
          ELSE None

\* C13 as stated: the total is the number of returned bundles, every MEV
\* type's count is Some(n) or None by the number n of returned bundles of
\* the type, and the total is the sum of the per-type counts.
C13_AsStated ==
    Filtered =>
        /\ composed.mev_count.mev_count = Len(composed.all_filtered_bundles)
        /\ \A t \in MevType : CountMatches(t)
        /\ composed.mev_count.mev_count
             = SumCounts(composed.mev_count, MevType)

\* C13 amended: the total is the number of returned bundles; each of the six
\* types with a count field has Some(n) or None by its number n of returned
\* bundles; the total is the sum of the six counts plus the number of
\* returned bundles of type Unknown.
C13_CountsMatchGroups ==
    Filtered =>
        /\ composed.mev_count.mev_count = Len(composed.all_filtered_bundles)
        /\ \A t \in MevType \ {"Unknown"} : CountMatches(t)
        /\ composed.mev_count.mev_count
             = SumCounts(composed.mev_count, MevType \ {"Unknown"})
                  + Returned_n("Unknown")

\* a type counted, a type filtered down to no bundle, and an Unknown bundle
\* returned
C13_Witness ==
    /\ Filtered
    /\ composed.mev_count.sandwich_count = Some(1)
    /\ "Backrun" \in DOMAIN grouped_mev
    /\ composed.mev_count.atomic_backrun_count = None
    /\ composed.mev_count.mev_count = 2
    /\ Returned_n("Unknown") = 1

\* the header of the block has been built
HeaderBuilt ==
    composer_pc \notin {"start", "build_mev_header", "on_baby_resolution"}

\* gas_used of the first n transaction roots, summed
RECURSIVE GasOfFirst(_, _)
GasOfFirst(roots, n) ==
    IF n = 0 THEN 0 ELSE GasOfFirst(roots, n - 1) + roots[n].gas_used

\* C16: the header's cumulative_gas_used is the sum of gas_used over the
\* tree's transaction roots, 0 for a block without transactions, whatever
\* the bundles.
C16_CumulativeGasUsed ==
    HeaderBuilt =>
        /\ mev_block.cumulative_gas_used
             = GasOfFirst(block_tree.tx_roots, Len(block_tree.tx_roots))
        /\ block_tree.tx_roots = <<>> => mev_block.cumulative_gas_used = 0

\* a header over two transactions and some bundles
C16_Witness ==
    /\ HeaderBuilt
    /\ Len(block_tree.tx_roots) = 2
    /\ inspector_bundles # <<>>
    /\ mev_block.cumulative_gas_used = 71

\* the tree with the same transactions under another base fee
Rebased(t, base_fee) ==
    [base_fee |-> base_fee,
     tx_roots |-> [i \in DOMAIN t.tx_roots |->
                      GasDetails(t.tx_roots[i].gas_used,
                                 t.tx_roots[i].priority_fee, base_fee)]]

RECURSIVE PriorityOfFirst(_, _)
PriorityOfFirst(roots, n) ==
    IF n = 0 THEN 0
    ELSE PriorityOfFirst(roots, n - 1) + roots[n].priority_fee

\* C17: the header's cumulative_priority_fee is the sum of priority_fee over
\* the transaction roots, and the same transactions under any other base fee
\* give the same cumulative_priority_fee.
C17_PriorityFeeOnly ==
    (inspect_crate = "brontes-inspect" /\ HeaderBuilt) =>
        /\ mev_block.cumulative_priority_fee
             = PriorityOfFirst(block_tree.tx_roots, Len(block_tree.tx_roots))
        /\ \A b \in BaseFees \cup {1} :
               pre_process(Rebased(block_tree, b), block_metadata)
                       .cumulative_priority_fee
                   = mev_block.cumulative_priority_fee

\* a header over two transactions of a block with a base fee
C17_Witness ==
    /\ inspect_crate = "brontes-inspect"
    /\ HeaderBuilt
    /\ block_tree.base_fee # 0
    /\ Len(block_tree.tx_roots) = 2
    /\ mev_block.cumulative_priority_fee = 4

RECURSIVE BribeOfFirst(_, _)
BribeOfFirst(bundles, n) ==
    IF n = 0 THEN 0 ELSE BribeOfFirst(bundles, n - 1) + bundles[n].bribe

\* (total_bribe + cumulative_priority_fee - proposer_mev_reward) / 10^18 of
\* the block, a missing reward counting as 0
ClaimedBuilderEthProfit ==
    from_signeds(
        BribeOfFirst(inspector_bundles, Len(inspector_bundles))
            + PriorityOfFirst(block_tree.tx_roots, Len(block_tree.tx_roots))
            - (IF block_metadata.proposer_mev_reward.some
               THEN block_metadata.proposer_mev_reward.val ELSE 0),
        18)

\* the header's value is the number n / 10^e: an f64 rounded from it, or an
\* integer equal to it, which with |n| < 10^e is 0 = 0 / 10^e only
IsNumber(value, rational) ==
    IF "u64" \in DOMAIN value
    THEN value.u64 = 0 /\ rational.n = 0
    ELSE value = rounding_from(rational)

\* C18: the header's builder_eth_profit is (total_bribe +
\* cumulative_priority_fee - proposer_mev_reward) / 10^18, rounded to the
\* nearest f64, with total_bribe the sum of the bundles' bribes and a
\* missing reward counting as 0.
C18_BuilderEthProfit ==
    HeaderBuilt =>
        IsNumber(mev_block.builder_eth_profit, ClaimedBuilderEthProfit)

\* C18 for the header of brontes-inspect alone
C18_BrontesHeader ==
    (inspect_crate = "brontes-inspect" /\ HeaderBuilt) =>
        /\ mev_block.builder_eth_profit
             = rounding_from(ClaimedBuilderEthProfit)
        /\ mev_block.total_bribe
             = BribeOfFirst(inspector_bundles, Len(inspector_bundles))

\* DaddyInspector's header over a bundle with a bribe and a proposer reward
C18_Witness ==
    /\ inspect_crate = "poirot-inspect"
    /\ HeaderBuilt
    /\ mev_block.total_bribe > 0
    /\ block_metadata.proposer_mev_reward = Some(5)
    /\ Len(block_tree.tx_roots) = 1

\* the header of brontes-inspect with a negative builder_eth_profit
C18_WitnessNegative ==
    /\ inspect_crate = "brontes-inspect"
    /\ HeaderBuilt
    /\ mev_block.builder_eth_profit.nearest_f64_to.n < 0

\* the bundles of a type in a grouped map
Grouped(grouped, mev_type) ==
    IF mev_type \in DOMAIN grouped THEN Range(grouped[mev_type]) ELSE {}

ReducePanicked ==
    composer_pc = "panicked" /\ composed.panicked_in = "replace_dep_filter"

\* the Sandwich bundles the inspectors returned
Sandwiches ==
    { b \in Range(inspector_bundles) : b.mev_type = "Sandwich" }

\* a Backrun or Jit whose tx_hashes are all tx_hashes of some Sandwich
Subsumed(b) ==
    /\ b.mev_type \in {"Backrun", "Jit"}
    /\ \E sw \in Sandwiches : Range(b.tx_hashes) \subseteq Range(sw.tx_hashes)

\* C14: when the Reduce rule has been applied to the grouped bundles, no
\* Backrun or Jit bundle whose tx_hashes are a subset of a Sandwich's
\* tx_hashes remains and every Sandwich bundle is still there.
C14_ReduceRemovesSubsumed ==
    (inspect_crate = "poirot-inspect" /\ composer_pc \in {"compose", "panicked"})
        => /\ ~ReducePanicked
           /\ composer_pc = "compose" =>
                /\ \A b \in BundlesOf(grouped_mev) : ~Subsumed(b)
                /\ Grouped(grouped_mev, "Sandwich") = Sandwiches

\* the Sandwich over three txs and the Backrun over its last tx: after the
\* Reduce rule only the Sandwich is left
C14_Witness ==
    /\ inspect_crate = "poirot-inspect"
    /\ composer_pc = "compose"
    /\ Len(inspector_bundles) = 2
    /\ \E b \in Range(inspector_bundles) :
           b.mev_type = "Backrun" /\ b.tx_hashes = <<"B0">>
    /\ Cardinality(Sandwiches) = 1
    /\ BundlesOf(grouped_mev) = Sandwiches

\* the block holds one Sandwich and one Jit over the same tx_hashes
SandwichAndJit ==
    /\ inspect_crate = "poirot-inspect"
    /\ Len(inspector_bundles) = 2
    /\ \E sw, j \in Range(inspector_bundles) :
           /\ sw.mev_type = "Sandwich"
           /\ j.mev_type = "Jit"
           /\ Range(sw.tx_hashes) = Range(j.tx_hashes)

\* C15: for a block of one Sandwich and one Jit over the same tx_hashes the
\* composition table, run in order, returns one JitSandwich bundle and
\* neither the Sandwich nor the Jit.
C15_SandwichJitComposed ==
    (SandwichAndJit /\ composer_pc \in {"done", "panicked"})
        => /\ composer_pc = "done"
           /\ \E js \in BundlesOf(composed) :
                  /\ js.mev_type = "JitSandwich"
                  /\ BundlesOf(composed) = {js}

\* the table has been run on such a block
C15_Witness ==
    /\ SandwichAndJit
    /\ composer_pc = "done"
    /\ BundlesOf(composed) = Sandwiches

(***************************************************************************)
(* brontes-core decoding/parser.rs: TraceParser::execute_block             *)
(***************************************************************************)
\* the calls of replay_block_transactions whose outcome the tracer fixes
MaxAttempts ==
    3

\* Result::Ok
Ok(value) ==
    [ok |-> TRUE, val |-> value]

\* Result::Err
Err ==
    [ok |-> FALSE]

\* what a call of the TracingProvider returns: Ok(Some(_)), Ok(None), Err(_)
RpcResults(payload) ==
    {Ok(Some(payload)), Ok(None), Err}

\* TraceParser::load_block_from_db
load_block_from_db(load_trace, header_by_number) ==
    IF ~load_trace.ok THEN None
    ELSE IF ~header_by_number.ok THEN None
    ELSE IF ~header_by_number.val.some THEN None
    ELSE Some(<<load_trace.val, header_by_number.val.val>>)

\* BlockStats::new(block_num, None) with stats.err set
BlockStats(err) ==
    [err |-> err]

\* TraceParser::trace_block: (trace, stats) of the one call made
trace_block(merged_trace) ==
    IF ~merged_trace.ok
    THEN <<None, BlockStats(Some("TraceParseError"))>>
    ELSE IF ~merged_trace.val.some
    THEN <<None, BlockStats(Some("TracesMissingBlock"))>>
    ELSE <<Some(merged_trace.val.val), BlockStats(None)>>

\* TraceParser::get_receipts
get_receipts(tx_receipts) ==
    IF ~tx_receipts.ok
    THEN <<None, BlockStats(None)>>
    ELSE IF ~tx_receipts.val.some
    THEN <<None, BlockStats(Some("TracesMissingBlock"))>>
    ELSE <<Some(tx_receipts.val.val), BlockStats(None)>>

\* Option::unwrap and Result::unwrap panic on None and on Err
UnwrapPanics(opt) ==
    IF "ok" \in DOMAIN opt THEN ~opt.ok ELSE ~opt.some

\* the test of execute_block for a block without data
NoData(trace, block_receipts) ==
    ~trace[1].some /\ ~block_receipts[1].some

\* UnboundedSender::send fails once the receiver is gone
Send(tx) ==
    IF tx.open THEN [tx EXCEPT !.sent = @ + 1] ELSE tx

ParserInit ==
    /\ libmdbx \in { [load_trace |-> l, save_traces |-> w, saved |-> FALSE] :
                       l \in {Ok("stored traces"), Err}, w \in {Ok("()"), Err} }
    /\ tracer \in { [replay_block_transactions |-> rs,
                     block_receipts |-> br,
                     header_by_number |-> h,
                     replays |-> 0] :
                       rs \in [1..MaxAttempts -> RpcResults("traces")],
                       br \in RpcResults("receipts"),
                       h \in RpcResults("header") }
    /\ features \in [local : BOOLEAN, dyn_decode : BOOLEAN]
    /\ metrics_tx \in { [open |-> o, sent |-> 0] : o \in BOOLEAN }
    /\ parser_pc = "start"
    /\ parity_trace = <<>>
    /\ receipts = <<>>
    /\ executed = <<>>
    /\ PricerIdle
    /\ ComposerIdle
    /\ RunnerIdle
    /\ StreamIdle

\* the cargo features of the build
provider ==
    <<features>>

\* execute_block returns `result`
Return(result) ==
    /\ executed' = result
    /\ parser_pc' = "done"

\* execute_block panics at `site`
ParserPanic(site) ==
    /\ executed' = [panicked_in |-> site]
    /\ parser_pc' = "panicked"

\* execute_block up to the first call of the tracer: the block is loaded
\* from the store, or the build has no tracer
LoadBlockFromDb ==
    /\ parser_pc = "start"
    /\ IF load_block_from_db(libmdbx.load_trace, tracer.header_by_number).some
       THEN Return(load_block_from_db(libmdbx.load_trace,
                                      tracer.header_by_number))
       ELSE IF features.local
       THEN Return(None)
       ELSE parser_pc' = "trace_block" /\ executed' = executed
    /\ UNCHANGED <<provider, libmdbx, tracer, metrics_tx, parity_trace,
                   receipts>>
    /\ UNCHANGED <<pricer, composer, runner, daddy_stream>>

\* let parity_trace = self.trace_block(block_num).await
TraceBlock ==
    /\ parser_pc = "trace_block"
    /\ parity_trace' =
           trace_block(tracer.replay_block_transactions[tracer.replays + 1])
    /\ tracer' = [tracer EXCEPT !.replays = @ + 1]
    /\ parser_pc' = "get_receipts"
    /\ UNCHANGED <<provider, libmdbx, metrics_tx, receipts, executed>>
    /\ UNCHANGED <<pricer, composer, runner, daddy_stream>>

\* let receipts = self.get_receipts(block_num).await
GetReceipts ==
    /\ parser_pc = "get_receipts"
    /\ receipts' = get_receipts(tracer.block_receipts)
    /\ parser_pc' = "block_data"
    /\ UNCHANGED <<provider, libmdbx, tracer, metrics_tx, parity_trace,
                   executed>>
    /\ UNCHANGED <<pricer, composer, runner, daddy_stream>>

\* if parity_trace.0.is_none() && receipts.0.is_none() { ...; return None }
NoBlockData ==
    /\ parser_pc = "block_data"
    /\ NoData(parity_trace, receipts)
    /\ IF features.dyn_decode /\ ~metrics_tx.open
       THEN ParserPanic("metrics_tx.send") /\ metrics_tx' = metrics_tx
       ELSE Return(None) /\ metrics_tx' = Send(metrics_tx)
    /\ UNCHANGED <<provider, libmdbx, tracer, parity_trace, receipts>>
    /\ UNCHANGED <<pricer, composer, runner, daddy_stream>>

\* fill_metadata(parity_trace.0.unwrap(), receipts.0.unwrap(), block_num)
\* and the metric of the block
FillMetadata ==
    /\ parser_pc = "block_data"
    /\ ~NoData(parity_trace, receipts)
    /\ IF UnwrapPanics(parity_trace[1])
       THEN ParserPanic("parity_trace.0.unwrap") /\ metrics_tx' = metrics_tx
       ELSE IF UnwrapPanics(receipts[1])
       THEN ParserPanic("receipts.0.unwrap") /\ metrics_tx' = metrics_tx
       ELSE IF UnwrapPanics(tracer.header_by_number)
       THEN ParserPanic("header_by_number.unwrap") /\ metrics_tx' = metrics_tx
       ELSE IF UnwrapPanics(tracer.header_by_number.val)
       THEN ParserPanic("header_by_number.unwrap.unwrap")
                /\ metrics_tx' = metrics_tx
       ELSE /\ parser_pc' = "save_traces"
            /\ executed' = executed
            /\ metrics_tx' = Send(metrics_tx)
    /\ UNCHANGED <<provider, libmdbx, tracer, parity_trace, receipts>>
    /\ UNCHANGED <<pricer, composer, runner, daddy_stream>>

\* save_traces failing the block: None returned when the write fails
SaveTraces_FailsBlock ==
    /\ parser_pc = "save_traces"
    /\ libmdbx' = [libmdbx EXCEPT !.saved = libmdbx.save_traces.ok]
    /\ IF libmdbx.save_traces.ok
       THEN Return(Some(<<parity_trace[1].val,
                          tracer.header_by_number.val.val>>))
       ELSE Return(None)
    /\ UNCHANGED <<provider, tracer, metrics_tx, parity_trace, receipts>>
    /\ UNCHANGED <<pricer, composer, runner, daddy_stream>>

\* self.libmdbx.save_traces(block_num, traces.0.clone()); Some((traces.0,
\* traces.2))
SaveTraces ==
    /\ parser_pc = "save_traces"
    /\ libmdbx' = [libmdbx EXCEPT !.saved = libmdbx.save_traces.ok]
    /\ Return(Some(<<parity_trace[1].val, tracer.header_by_number.val.val>>))
    /\ UNCHANGED <<provider, tracer, metrics_tx, parity_trace, receipts>>
    /\ UNCHANGED <<pricer, composer, runner, daddy_stream>>

ParserNext ==
    \/ LoadBlockFromDb
    \/ TraceBlock
    \/ GetReceipts
    \/ NoBlockData
    \/ FillMetadata
    \/ SaveTraces

ParserSpec ==
    ParserInit /\ [][ParserNext]_vars

(***************************************************************************)
(* Properties of execute_block                                             *)
(***************************************************************************)
\* execute_block has returned or has panicked
Ended ==
    parser_pc \in {"done", "panicked"}

\* the block is not in the store
NotStored ==
    ~libmdbx.load_trace.ok

\* the tracer has no traces or no receipts for the block
DataMissing ==
    \/ UnwrapPanics(tracer.replay_block_transactions[1])
    \/ UnwrapPanics(tracer.replay_block_transactions[1].val)
    \/ UnwrapPanics(tracer.block_receipts)
    \/ UnwrapPanics(tracer.block_receipts.val)

\* C19: for a block that is not in the store and for which the tracer has no
\* traces or no receipts, execute_block returns None, does not panic and
\* saves no traces (the receiver of the metrics being alive).
C19_MissingDataSkipsBlock ==
    (Ended /\ NotStored /\ DataMissing /\ metrics_tx.open)
        => /\ parser_pc = "done"
           /\ executed = None
           /\ ~libmdbx.saved

\* traces and receipts are both missing and the block is skipped
C19_Witness ==
    /\ NotStored
    /\ tracer.replays = 1
    /\ tracer.replay_block_transactions[1] = Err
    /\ tracer.block_receipts = Ok(None)
    /\ parser_pc = "done"
    /\ executed = None
    /\ ~libmdbx.saved

\* the first `k` calls of replay_block_transactions fail
FirstFail(k) ==
    \A i \in 1..k : tracer.replay_block_transactions[i] = Err

\* the call number `k` is the first to succeed, with the block's traces
SucceedsAt(k) ==
    /\ FirstFail(k - 1)
    /\ tracer.replay_block_transactions[k] = Ok(Some("traces"))

\* trace_block has returned
Traced ==
    parser_pc \in {"get_receipts", "block_data", "save_traces", "done",
                   "panicked"} /\ tracer.replays > 0

\* C20: a tracer error is retried up to 3 attempts: when the second or the
\* third attempt succeeds trace_block has the block's traces, and it has
\* none only after three failed attempts.
C20_RetriedUpToThree ==
    Traced =>
        /\ \A k \in 2..3 : SucceedsAt(k) =>
               /\ parity_trace[1] = Some("traces")
               /\ tracer.replays = k
        /\ FirstFail(3) => parity_trace[1] = None /\ tracer.replays = 3

\* the first attempt fails, the second would succeed, and the block is
\* skipped after the one call made
C20_Witness ==
    /\ NotStored
    /\ SucceedsAt(2)
    /\ tracer.replays = 1
    /\ parity_trace[1] = None
    /\ tracer.block_receipts = Err
    /\ parser_pc = "done"
    /\ executed = None

\* the block was traced: traces, receipts and header were all there
FreshlyTraced ==
    /\ parser_pc = "done"
    /\ tracer.replays = 1
    /\ parity_trace[1].some
    /\ receipts[1].some

\* C21: when the traces of a freshly traced block cannot be saved,
\* execute_block still returns Some((traces, header)), the traces and header
\* being those returned when the save succeeds, and the store has no entry
\* for the block.
C21_SaveFailureKeepsBlock ==
    FreshlyTraced =>
        /\ executed = Some(<<tracer.replay_block_transactions[1].val.val,
                             tracer.header_by_number.val.val>>)
        /\ libmdbx.saved = libmdbx.save_traces.ok

\* a traced block whose save failed
C21_Witness ==
    /\ FreshlyTraced
    /\ ~libmdbx.save_traces.ok
    /\ executed = Some(<<"traces", "header">>)
    /\ ~libmdbx.saved

(***************************************************************************)
(* bin cli/run.rs: RunArgs::execute                                        *)
(***************************************************************************)
\* block numbers of --start-block and --end-block
MaxBlock ==
    2

\* entries of --inspectors
MaxInspectors ==
    2

\* brontes_inspect::Inspectors, the variants run.rs names and one other
Inspectors ==
    {"CexDex", "CexDexMarkout", "Sandwich"}

\* --inspectors: omitted, or a comma-separated list
InspectorArgs ==
    {None} \cup
    { Some(f) : f \in UNION { [1..n -> Inspectors] : n \in 1..MaxInspectors } }

\* --start-block, --end-block
BlockArgs ==
    {None} \cup { Some(b) : b \in 0..MaxBlock }

\* RunArgs: the fields RunArgs::execute decides on
RunArgs ==
    [start_block          : BlockArgs,
     end_block            : BlockArgs,
     inspectors           : InspectorArgs,
     force_dex_pricing    : BOOLEAN,
     force_no_dex_pricing : BOOLEAN]

\* eyre::Result
EyreOk ==
    [ok |-> TRUE]

EyreErr(msg) ==
    [ok |-> FALSE, err |-> msg]

\* check_proper_range rejecting start == end as well
check_proper_range_NonStrict(start_block, end_block) ==
    IF start_block.some /\ end_block.some /\ start_block.val >= end_block.val
    THEN EyreErr("start block must be less than end block")
    ELSE EyreOk

\* RunArgs::check_proper_range
check_proper_range(start_block, end_block) ==
    IF start_block.some /\ end_block.some /\ start_block.val > end_block.val
    THEN EyreErr("start block must be less than end block")
    ELSE EyreOk

\* Vec::contains
Contains(f, inspector) ==
    \E i \in DOMAIN f : f[i] = inspector

\* only_cex_dex: `&&` binds tighter than `||`
only_cex_dex(inspectors) ==
    IF ~inspectors.some THEN FALSE
    ELSE \/ Len(inspectors.val) = 1 /\ Contains(inspectors.val, "CexDex")
         \/ Contains(inspectors.val, "CexDexMarkout")

\* if only_cex_dex { self.force_no_dex_pricing = true; }
OverrideNoDexPricing(run) ==
    IF only_cex_dex(run.inspectors)
    THEN [run EXCEPT !.force_no_dex_pricing = TRUE]
    ELSE run

\* the arguments of BrontesRunConfig::new that come from the flags
BrontesRunConfig(run) ==
    [start_block          |-> run.start_block,
     end_block            |-> run.end_block,
     force_dex_pricing    |-> run.force_dex_pricing,
     force_no_dex_pricing |-> run.force_no_dex_pricing]

\* the initialization of execute up to the databases, in its order
InitSequence ==
    <<"get_env_vars", "quote_asset.parse", "init_threadpools",
      "spawn metrics", "try_start_fallback_server", "load_database",
      "load_tip_database", "load_clickhouse">>

\* the steps that end in `?`
FallibleSteps ==
    {"get_env_vars", "quote_asset.parse", "load_database",
     "load_tip_database", "load_clickhouse"}

RunnerInit ==
    /\ run_args \in RunArgs
    /\ run_env \in [FallibleSteps -> BOOLEAN]
    /\ run_pc = "check_proper_range"
    /\ init_steps = <<>>
    /\ run_config = <<>>
    /\ run_result = <<>>
    /\ PricerIdle
    /\ ComposerIdle
    /\ ParserIdle
    /\ StreamIdle

\* self.check_proper_range()?
CheckProperRange ==
    /\ run_pc = "check_proper_range"
    /\ IF check_proper_range(run_args.start_block, run_args.end_block).ok
       THEN run_pc' = "initialize" /\ run_result' = run_result
       ELSE /\ run_result' = check_proper_range(run_args.start_block,
                                                run_args.end_block)
            /\ run_pc' = "returned"
    /\ UNCHANGED <<run_args, run_env, init_steps, run_config>>
    /\ UNCHANGED <<pricer, composer, parser, daddy_stream>>

\* the next step of the initialization is made; `?` returns its error
InitStep(step) ==
    /\ init_steps' = Append(init_steps, step)
    /\ IF step \in FallibleSteps /\ ~run_env[step]
       THEN run_result' = EyreErr(step) /\ run_pc' = "returned"
       ELSE /\ run_result' = run_result
            /\ run_pc' = IF Len(init_steps) + 1 = Len(InitSequence)
                         THEN "run_init" ELSE "initialize"

\* execute from get_env_vars to load_clickhouse, one step at a time
Initialize ==
    /\ run_pc = "initialize"
    /\ InitStep(InitSequence[Len(init_steps) + 1])
    /\ UNCHANGED <<run_args, run_env, run_config>>
    /\ UNCHANGED <<pricer, composer, parser, daddy_stream>>

\* only_cex_dex, the override, and BrontesRunConfig::new in "run init"
RunInit ==
    /\ run_pc = "run_init"
    /\ run_config' = BrontesRunConfig(OverrideNoDexPricing(run_args))
    /\ run_result' = EyreOk
    /\ run_pc' = "returned"
    /\ UNCHANGED <<run_args, run_env, init_steps>>
    /\ UNCHANGED <<pricer, composer, parser, daddy_stream>>

RunnerNext ==
    \/ CheckProperRange
    \/ Initialize
    \/ RunInit

RunnerSpec ==
    RunnerInit /\ [][RunnerNext]_vars

(***************************************************************************)
(* Properties of RunArgs::execute                                          *)
(***************************************************************************)
\* the run configuration has been handed to the pipeline
Handed ==
    run_pc = "returned" /\ run_config # <<>>

\* C22: the run configuration handed to the pipeline never has
\* force_dex_pricing and force_no_dex_pricing both true.
C22_PricingFlagsExclusive ==
    Handed =>
        ~(run_config.force_dex_pricing /\ run_config.force_no_dex_pricing)

\* both flags given on the command line and handed on as given
C22_Witness ==
    /\ Handed
    /\ run_args.force_dex_pricing
    /\ run_args.force_no_dex_pricing
    /\ ~run_args.inspectors.some
    /\ run_config.force_dex_pricing
    /\ run_config.force_no_dex_pricing

\* start_block and end_block are both given and start > end
BadRange ==
    /\ run_args.start_block.some
    /\ run_args.end_block.some
    /\ run_args.start_block.val > run_args.end_block.val

\* execute returned the error of check_proper_range
RangeRejected ==
    /\ run_pc = "returned"
    /\ run_result = EyreErr("start block must be less than end block")

\* C23: execute returns the range error exactly when start_block and
\* end_block are both given and start > end, and it does so before any
\* initialization step is made; every other range goes on to the
\* initialization.
C23_RangeCheckedFirst ==
    /\ run_pc # "check_proper_range" =>
           /\ BadRange <=> RangeRejected
           /\ BadRange => init_steps = <<>> /\ run_config = <<>>
    /\ run_pc = "check_proper_range" => init_steps = <<>>

\* a range with start > end was rejected with nothing initialized
C23_Witness ==
    /\ BadRange
    /\ RangeRejected
    /\ init_steps = <<>>

\* a range with start == end, and an open range, went through
C23_WitnessAccepted ==
    /\ Handed
    /\ \/ run_args.start_block = Some(1) /\ run_args.end_block = Some(1)
       \/ run_args.start_block = Some(2) /\ run_args.end_block = None

\* the inspectors selected are all CEX-DEX inspectors
SolelyCexDex ==
    /\ run_args.inspectors.some
    /\ \A i \in DOMAIN run_args.inspectors.val :
           run_args.inspectors.val[i] \in {"CexDex", "CexDexMarkout"}

\* C29: force_no_dex_pricing is overridden only for a set of CEX-DEX
\* inspectors alone; with --inspectors omitted or with an inspector other
\* than CexDex and CexDexMarkout listed, the value handed to the pipeline is
\* the value of the command line.
C29_OverrideOnlyForCexDex ==
    (Handed /\ ~SolelyCexDex) =>
        run_config.force_no_dex_pricing = run_args.force_no_dex_pricing

\* the override made for --inspectors cex-dex
C29_Witness ==
    /\ Handed
    /\ run_args.inspectors = Some(<<"CexDex">>)
    /\ ~run_args.force_no_dex_pricing
    /\ run_config.force_no_dex_pricing

(***************************************************************************)
(* Properties of the Reduce and Compose rules for any set of bundles       *)
(***************************************************************************)
\* the bundle shares a tx hash with a Sandwich of the block
OverlapsSandwich(b) ==
    \E sw \in Sandwiches : AnyContained(b.tx_hashes, sw.tx_hashes)

\* the bundles of a dependency type that share no tx hash with a Sandwich,
\* in the order of the group
Retained(mev_type) ==
    SelectSeq(OfType(inspector_bundles, mev_type),
              LAMBDA b : ~OverlapsSandwich(b))

\* replace_dep_filter has run on the grouped bundles
Reduced ==
    /\ inspect_crate = "poirot-inspect"
    /\ \/ composer_pc = "compose"
       \/ ReducePanicked

\* C27: replace_dep_filter removes exactly the Backrun and Jit bundles that
\* share a tx hash with a Sandwich, each once, keeps the others in place,
\* and removes at no index outside the list.
C27_RemovesExactlyOverlapping ==
    Reduced =>
        /\ ~ReducePanicked
        /\ \A t \in {"Backrun", "Jit"} :
               t \in DOMAIN grouped_mev => grouped_mev[t] = Retained(t)

\* a Backrun and a Jit inside the Sandwich are both removed
C27_Witness ==
    /\ Reduced
    /\ composer_pc = "compose"
    /\ Cardinality(Sandwiches) = 1
    /\ Len(OfType(inspector_bundles, "Backrun")) = 1
    /\ Len(OfType(inspector_bundles, "Jit")) = 1
    /\ grouped_mev["Backrun"] = <<>>
    /\ grouped_mev["Jit"] = <<>>

\* the block has no Sandwich bundle or no Jit bundle
NoSandwichOrNoJit ==
    \/ OfType(inspector_bundles, "Sandwich") = <<>>
    \/ OfType(inspector_bundles, "Jit") = <<>>

\* the bundles emitted under a type that is not theirs
Mistyped(results) ==
    { t \in DOMAIN results : \E b \in Range(results[t]) : b.mev_type # t }

\* C28: whatever the bundles of the block, once the Reduce rule has
\* returned the composition returns too; for a block without a Sandwich or
\* without a Jit it creates no JitSandwich and emits the bundles the Reduce
\* rule left, each under its own type.
C28_CompositionCompletes ==
    (inspect_crate = "poirot-inspect" /\ ~ReducePanicked) =>
        /\ composer_pc # "panicked"
        /\ (composer_pc = "done" /\ NoSandwichOrNoJit) =>
               /\ Grouped(composed, "JitSandwich") = {}
               /\ Mistyped(composed) = {}
               /\ BundlesOf(composed) \subseteq Range(inspector_bundles)

\* a block with a Sandwich and a Jit is composed: the Jit is reduced away,
\* nothing is paired and the Sandwich is emitted
C28_Witness ==
    /\ inspect_crate = "poirot-inspect"
    /\ composer_pc = "done"
    /\ Cardinality(Sandwiches) = 1
    /\ OfType(inspector_bundles, "Jit") # <<>>
    /\ Grouped(composed, "JitSandwich") = {}
    /\ Grouped(composed, "Sandwich") = Sandwiches

(***************************************************************************)
(* Zero volume in the direct price                                         *)
(***************************************************************************)
\* the fill loop divides by the queue's volume once per basket
FillDivides(q) ==
    q.called /\ q.baskets # <<>>

MaxTrees ==
    2

\* `const N: usize`, the number of baby inspectors
N ==
    2

\* the trees and metadata handed to on_new_tree
StreamTrees ==
    {t \in BlockTrees : Len(t.tx_roots) = 1 /\ t.base_fee = 7}

StreamMetadata ==
    {[proposer_mev_reward |-> r] : r \in {None, Some(5)}}

\* what one inspector's process_tree future resolves to
InspectorOutputs ==
    {l \in BundleLists :
        /\ Len(l) <= 1
        /\ \A i \in DOMAIN l : l[i].mev_type \in {"Sandwich", "Jit", "CexDex"}}

\* join_all over the process_tree futures of on_new_tree call `id`: no
\* future has resolved
join_all(id) ==
    [of |-> id, output |-> [i \in 1..N |-> None]]

\* JoinAll polled with any one future resolved taken as ready, the others
\* contributing nothing
poll_unpin_AnyResolved(calculations) ==
    IF \E i \in 1..N : calculations.output[i].some
    THEN [ready |-> TRUE,
          data  |-> [i \in 1..N |->
                        IF calculations.output[i].some
                        THEN calculations.output[i].val ELSE <<>>]]
    ELSE [ready |-> FALSE]

\* calculations.poll_unpin(cx): Ready with every output, in the order of
\* the futures, once all of them have resolved
poll_unpin(calculations) ==
    IF \A i \in 1..N : calculations.output[i].some
    THEN [ready |-> TRUE,
          data  |-> [i \in 1..N |-> calculations.output[i].val]]
    ELSE [ready |-> FALSE]

\* data.into_iter().flatten().collect()
RECURSIVE Flatten(_)
Flatten(data) ==
    IF data = <<>> THEN <<>> ELSE Head(data) \o Flatten(Tail(data))

\* DaddyInspector::new
DaddyInspector_new ==
    [inspectors_execution |-> None, pre_processing |-> None]

\* DaddyInspector::is_processing
is_processing(self) ==
    self.inspectors_execution.some

\* on_new_tree that leaves pre-processing already stored in place
on_new_tree_KeepPreProcessing(self, id, tree, meta_data) ==
    [inspectors_execution |-> Some(join_all(id)),
     pre_processing       |->
         IF self.pre_processing.some THEN self.pre_processing
         ELSE Some(DaddyInspector_pre_process(tree, meta_data))]

\* DaddyInspector::on_new_tree, the `id`-th call
on_new_tree(self, id, tree, meta_data) ==
    [inspectors_execution |-> Some(join_all(id)),
     pre_processing       |->
         Some(DaddyInspector_pre_process(tree, meta_data))]

PanickedIn(step) ==
    [panicked |-> TRUE, step |-> step]

\* the MEV_FILTER passes and the downcast of on_baby_resolution
FilterAndDowncast(header, baby_data, reduced, composed_mev) ==
    IF reduced.panicked THEN PanickedIn("replace_dep_filter")
    ELSE IF composed_mev.panicked THEN PanickedIn("compose_dep_filter")
    ELSE IF Downcast(composed_mev.sorted_mev).panicked
    THEN PanickedIn("downcast")
    ELSE [panicked |-> FALSE, header |-> header, baby_data |-> baby_data,
          sorted_mev |-> Downcast(composed_mev.sorted_mev).sorted_mev]

ComposeAfter(reduced) ==
    IF reduced.panicked THEN Panic
    ELSE compose_dep_filter(MEV_FILTER[2].head, MEV_FILTER[2].deps,
                            reduced.sorted_mev)

\* DaddyInspector::on_baby_resolution; `self.pre_processing.take().unwrap()`
\* panics on None
on_baby_resolution(self, baby_data) ==
    IF ~self.pre_processing.some THEN PanickedIn("build_mev_header")
    ELSE FilterAndDowncast(
             DaddyInspector_build_mev_header(self.pre_processing.val,
                                             baby_data),
             baby_data,
             replace_dep_filter(MEV_FILTER[1].head, MEV_FILTER[1].deps,
                                sort_mev_by_type(baby_data)),
             ComposeAfter(replace_dep_filter(MEV_FILTER[1].head,
                                             MEV_FILTER[1].deps,
                                             sort_mev_by_type(baby_data))))

\* the DaddyInspector as it stands
DaddyInspector ==
    [inspectors_execution |-> inspectors_execution,
     pre_processing       |-> pre_processing]

StreamInit ==
    /\ submitted = <<>>
    /\ inspectors_execution = DaddyInspector_new.inspectors_execution
    /\ pre_processing = DaddyInspector_new.pre_processing
    /\ last_poll = [poll |-> "none"]
    /\ emitted = <<>>
    /\ PricerIdle
    /\ ComposerIdle
    /\ ParserIdle
    /\ RunnerIdle

\* a caller hands the next block to on_new_tree
StreamOnNewTree ==
    /\ last_poll.poll # "panicked"
    /\ Len(submitted) < MaxTrees
    /\ \E tree \in StreamTrees, meta_data \in StreamMetadata :
          /\ submitted' = Append(submitted,
                                 [tree |-> tree, meta_data |-> meta_data])
          /\ inspectors_execution' =
                 on_new_tree(DaddyInspector, Len(submitted) + 1, tree,
                             meta_data).inspectors_execution
          /\ pre_processing' =
                 on_new_tree(DaddyInspector, Len(submitted) + 1, tree,
                             meta_data).pre_processing
    /\ UNCHANGED <<last_poll, emitted>>
    /\ UNCHANGED <<pricer, composer, parser, runner>>

\* inspector.process_tree of baby inspector `i` has its result
ProcessTreeResolves ==
    /\ last_poll.poll # "panicked"
    /\ inspectors_execution.some
    /\ \E i \in 1..N, bundles \in InspectorOutputs :
          /\ ~inspectors_execution.val.output[i].some
          /\ inspectors_execution' =
                 Some([inspectors_execution.val EXCEPT
                          !.output[i] = Some(bundles)])
    /\ UNCHANGED <<submitted, pre_processing, last_poll, emitted>>
    /\ UNCHANGED <<pricer, composer, parser, runner>>

\* poll_next, the joined future ready: on_baby_resolution returns
\* Poll::Ready(Some(..)) or panics
BabyResolution(of, r) ==
    /\ inspectors_execution' = None
    /\ pre_processing' = None
    /\ IF r.panicked
       THEN /\ last_poll' = [poll |-> "panicked", step |-> r.step]
            /\ emitted' = emitted
       ELSE /\ last_poll' = [poll |-> "Ready(Some)"]
            /\ emitted' = Append(emitted,
                                 [of         |-> of,
                                  header     |-> r.header,
                                  baby_data  |-> r.baby_data,
                                  sorted_mev |-> r.sorted_mev])

\* Stream::poll_next
PollNext ==
    /\ last_poll.poll # "panicked"
    /\ IF inspectors_execution.some
       THEN IF poll_unpin(inspectors_execution.val).ready
            THEN BabyResolution(
                     inspectors_execution.val.of,
                     on_baby_resolution(
                         DaddyInspector,
                         Flatten(poll_unpin(inspectors_execution.val).data)))
            ELSE /\ last_poll' = [poll |-> "Pending"]
                 /\ UNCHANGED <<inspectors_execution, pre_processing,
                                emitted>>
       ELSE /\ last_poll' = [poll |-> "Pending"]
            /\ UNCHANGED <<inspectors_execution, pre_processing, emitted>>
    /\ UNCHANGED submitted
    /\ UNCHANGED <<pricer, composer, parser, runner>>

StreamNext ==
    \/ StreamOnNewTree
    \/ ProcessTreeResolves
    \/ PollNext

StreamSpec ==
    StreamInit /\ [][StreamNext]_vars

(***************************************************************************)
(* Properties of the DaddyInspector stream                                 *)
(***************************************************************************)
\* a process_tree future of the execution in flight has not resolved
InspectorPending ==
    /\ inspectors_execution.some
    /\ \E i \in 1..N : ~inspectors_execution.val.output[i].some

\* the outputs of the first `k` inspectors, one after the other
RECURSIVE ConcatUpTo(_, _)
ConcatUpTo(output, k) ==
    IF k = 0 THEN <<>> ELSE ConcatUpTo(output, k - 1) \o output[k].val

\* C24: while a process_tree future of the block in flight is pending, no
\* step emits an item, runs on_baby_resolution or drops the execution, and
\* a poll_next call returns Pending; an item is emitted only from an
\* execution whose futures have all resolved, and its input is the
\* inspectors' results one after the other in inspector order.
C24_ComposesAfterAllResolved ==
    [][/\ InspectorPending =>
              /\ emitted' = emitted
              /\ last_poll' \in {last_poll, [poll |-> "Pending"]}
              /\ inspectors_execution'.some
       /\ emitted' # emitted =>
              /\ inspectors_execution.some
              /\ \A i \in 1..N : inspectors_execution.val.output[i].some
              /\ emitted' = Append(emitted, emitted'[Len(emitted')])
              /\ emitted'[Len(emitted')].of = inspectors_execution.val.of
              /\ emitted'[Len(emitted')].baby_data =
                     ConcatUpTo(inspectors_execution.val.output, N)]_vars

\* a block was composed from the results of two inspectors, and the next
\* block, one inspector resolved and one pending, has been polled
C24_Witness ==
    /\ Len(emitted) = 1
    /\ Len(emitted[1].baby_data) = 2
    /\ emitted[1].baby_data[1].mev_type = "Sandwich"
    /\ emitted[1].baby_data[2].mev_type = "Jit"
    /\ InspectorPending
    /\ inspectors_execution.val.output[2].some
    /\ inspectors_execution.val.output[2].val # <<>>
    /\ last_poll = [poll |-> "Pending"]

\* the pre-processing of the `id`-th on_new_tree call
PreProcessingOf(id) ==
    DaddyInspector_pre_process(submitted[id].tree, submitted[id].meta_data)

\* C25 (the protocol for blocks whose composition completes): unless
\* on_baby_resolution has panicked, is_processing() holds exactly while the
\* latest block has no emitted item, and no block is emitted twice.
C25_ProcessingUntilEmitted ==
    /\ last_poll.poll \in {"none", "Pending", "Ready(Some)", "panicked"}
    /\ last_poll.poll # "panicked" =>
           (is_processing(DaddyInspector) <=>
                /\ submitted # <<>>
                /\ \A k \in DOMAIN emitted : emitted[k].of # Len(submitted))
    /\ \A j, k \in DOMAIN emitted : emitted[j].of = emitted[k].of => j = k

\* C25: after one on_new_tree call is_processing() is true exactly until
\* poll_next has returned that block's item, which it returns exactly once.
C25_OneItemPerTree ==
    Len(submitted) = 1 =>
        /\ is_processing(DaddyInspector) <=> emitted = <<>>
        /\ Len(emitted) <= 1

\* one block was submitted, all its inspectors resolved, and the poll_next
\* call that took the execution panicked in on_baby_resolution
C25_Witness ==
    /\ Len(submitted) = 1
    /\ last_poll.poll = "panicked"
    /\ ~is_processing(DaddyInspector)
    /\ emitted = <<>>

\* C26: pre-processing is stored whenever an execution is in flight and is
\* that of the same on_new_tree call; build_mev_header never finds it
\* missing; every emitted header is built from the pre-processing of the
\* on_new_tree call whose inspectors returned the emitted bundles.
C26_HeaderOfSameTree ==
    /\ inspectors_execution.some =>
           /\ pre_processing.some
           /\ pre_processing.val =
                  PreProcessingOf(inspectors_execution.val.of)
    /\ last_poll.poll = "panicked" => last_poll.step # "build_mev_header"
    /\ \A k \in DOMAIN emitted :
           emitted[k].header =
               DaddyInspector_build_mev_header(PreProcessingOf(emitted[k].of),
                                               emitted[k].baby_data)

\* on_new_tree was called again while the first block was in flight, with
\* a block of different pre-processing, and the second block was emitted
C26_Witness ==
    /\ Len(submitted) = 2
    /\ PreProcessingOf(1) # PreProcessingOf(2)
    /\ Len(emitted) = 1
    /\ emitted[1].of = 2
    /\ emitted[1].header # DaddyInspector_build_mev_header(
                               PreProcessingOf(1), emitted[1].baby_data)

====
